---- MODULE Spec2Model ----
(***************************************************************************)
(* Reverse-mode automatic differentiation on scalar Values                 *)
(* (mlalgos/neural_network/autograd.py), the activation functions          *)
(* (functional.py), Module / Neuron / Linear (base.py, linear.py) and the  *)
(* optimizers (optimizer.py).                                              *)
(*                                                                         *)
(* Python floats are modelled as exact rationals <<numerator, denominator>>*)
(* in lowest terms, denominator > 0.  A Value object is an index into the  *)
(* sequence vals: object identity is the index, never the data.            *)
(***************************************************************************)
EXTENDS Integers, Sequences, FiniteSets, TLC

(* ---------------------------- bounds ----------------------------------- *)
\* Most Value objects a behaviour allocates.
MaxNodes == 4
\* Most operation calls (one call may allocate several Values).
MaxOps == 2
\* Most iterations of the training loop.
MaxIter == 2

(* ------------------------ rational arithmetic -------------------------- *)
AbsInt(i) == IF i < 0 THEN -i ELSE i

RECURSIVE Gcd(_, _)
Gcd(a, b) == IF b = 0 THEN a ELSE Gcd(b, a % b)

\* n/d in lowest terms with a positive denominator (d # 0).
Rat(n, d) ==
    LET g == Gcd(AbsInt(n), AbsInt(d))
        s == IF d < 0 THEN -1 ELSE 1
    IN  <<s * (n \div g), (s * d) \div g>>

R(i) == <<i, 1>>
Zero == R(0)
One == R(1)
RAdd(x, y) == Rat(x[1] * y[2] + y[1] * x[2], x[2] * y[2])
RMul(x, y) == Rat(x[1] * y[1], x[2] * y[2])
RNeg(x) == <<-x[1], x[2]>>
RSub(x, y) == RAdd(x, RNeg(y))
RInv(x) == Rat(x[2], x[1])
RDiv(x, y) == RMul(x, RInv(y))
RLt(x, y) == x[1] * y[2] < y[1] * x[2]
RMax(x, y) == IF RLt(x, y) THEN y ELSE x

RECURSIVE RPowNat(_, _)
RPowNat(x, k) == IF k = 0 THEN One ELSE RMul(x, RPowNat(x, k - 1))

\* x ** k for an integer k; Python raises ZeroDivisionError for 0.0 ** k, k < 0.
PowRaises(x, k) == k < 0 /\ x = Zero
RPow(x, k) == IF k >= 0 THEN RPowNat(x, k) ELSE RInv(RPowNat(x, -k))

(* ------------------------------ inputs --------------------------------- *)
\* data of the leaf Values the caller constructs
LeafData == {R(-4), R(2)}
\* plain numbers used as the other operand of + and *
Lits == {R(3)}
\* constant exponents of **
PowExps == {0, 2}
\* what random.uniform(-1, 1) returns for a weight and for a bias
Weights == {Rat(1, 2), Rat(-1, 2)}
Biases == {R(0), Rat(1, 2)}
\* in_features of the Neurons, <<in_features, out_features>> of the layers
InFeatures == 0..2
LinearShapes == {<<i, o>> : i \in 0..1, o \in 0..2}
\* the input sequences x handed to forward
Xs == {<<>>, <<R(2)>>, <<R(2), R(2)>>, <<R(-1), R(2)>>}
\* the learning rates handed to SGD, and to Adam
LRs == {Rat(1, 2), R(-1)}
AdamLRs == {R(0), Rat(1, 2), R(-1)}
\* beta1, beta2 and epsilon a caller passes to Adam: values whose powers and
\* quotients stay within the integers of the model (the defaults 0.9, 0.999
\* and 1e-8 do not)
AdamHypers == {[beta1 |-> Rat(1, 2), beta2 |-> Rat(1, 2), epsilon |-> One]}

(* ------------------------------ state ---------------------------------- *)
VARIABLES
    vals,     \* the Value objects, in allocation order: records with the
              \* fields of Value plus what the _backward closure captured
    pc,       \* "idle", or the position inside backward(): "rev" in the
              \* loop over reversed(topo); "raised" after a _backward raised;
              \* "join" while the program waits for its two threads and
              \* "joined" after that; "calls" between the calls of a
              \* program that calls backward() several times
    root,     \* the Value backward() was last called on (0: none)
    topo,     \* topo of backward()
    idx,      \* position of the loop over reversed(topo)
    nops,     \* operation calls made so far
    ret,      \* outcome of the last constructor, operation or forward call:
              \* <<"value", v>>, <<"list", vs>>, <<"params", vs>> or
              \* <<"raise", exception>>
    mods,     \* the Module objects, in allocation order: the class, the
              \* attributes of __dict__ in insertion order, and the
              \* constructor's in_features
    opt,      \* the optimizer: <<>>, or once constructed what
              \* Optimizer.__init__ set, [params, lr], followed for an Adam
              \* by what Adam.__init__ added
    phase,    \* position of the program that uses the modules
    iter,     \* step() calls made so far
    args,     \* the arguments of the last call on a module or of an
              \* optimizer's constructor: the module m, and the numbers x
              \* handed over (the input sequence, or <<lr>>)
    snap,     \* vals as they were before the last forward call, step() or
              \* second zero_grad()
    tok,      \* the BytePairEncoding object: _merges and _vocab
    tkcall,   \* the last call on the tokenizer and what it returned
    enc,      \* the OneHotEncoder object: <<>> before it is constructed
    enccall,  \* the data of the last fit(), and the last transform() call
    hist,     \* the calls of a program that calls backward() several times
              \* without zero_grad(): <<"backward", root>> and, for the
              \* step() of an SGD on one leaf, <<"step", leaf>>
    thr       \* the two threads that run backward() concurrently (<<>>:
              \* not started): the root, topo, the position in the loop
              \* over reversed(topo) and inside the _backward it runs, and
              \* the grad a += has read and not yet written back

bwvars == <<pc, root, topo, idx>>
nnvars == <<mods, opt, phase, iter, args, snap>>
extvars == <<tok, tkcall, enc, enccall, thr, hist>>
vars == <<vals, bwvars, nops, ret, nnvars, extvars>>

Ids(h) == 1..Len(h)

\* Value.__init__: grad 0.0, _prev = set(children), _backward = no-op.
\* self / other / t are what the closure installed afterwards captures.
Value(data, children, op, self, other, t) ==
    [data |-> data, grad |-> Zero, prev |-> children, op |-> op,
     self |-> self, other |-> other, t |-> t]

Leaf(data) == Value(data, {}, "", 0, 0, Zero)

\* An operand of a binary operation: a Value (by identity) or a plain number.
IsValue(o) == o[1] = "v"
Operands(h) == {<<"v", i>> : i \in Ids(h)} \cup {<<"f", r>> : r \in Lits}

\* other = other if isinstance(other, Value) else Value(other)
Lift(h, o) == IF IsValue(o) THEN h ELSE Append(h, Leaf(o[2]))
LiftId(h, o) == IF IsValue(o) THEN o[2] ELSE Len(h) + 1

\* Value.__add__: the heap after the call; the result is its last element.
__add__(h, s, o) ==
    LET h1 == Lift(h, o)
        oi == LiftId(h, o)
    IN  Append(h1, Value(RAdd(h1[s].data, h1[oi].data), {s, oi}, "+", s, oi, Zero))

\* Value.__mul__
__mul__(h, s, o) ==
    LET h1 == Lift(h, o)
        oi == LiftId(h, o)
    IN  Append(h1, Value(RMul(h1[s].data, h1[oi].data), {s, oi}, "*", s, oi, Zero))

\* Value.__pow__: other is a plain number, kept by the closure.
__pow__(h, s, k) ==
    Append(h, Value(RPow(h[s].data, k), {s}, "**", s, k, Zero))

\* a bug: relu clamps its input in place before it builds the result
_single_relu_inplace(h, v) ==
    LET h1 == [h EXCEPT ![v].data = RMax(h[v].data, Zero)]
    IN  Append(h1, Value(h1[v].data, {v}, "relu", v, 0, Zero))

\* relu._single_relu
_single_relu(h, v) ==
    Append(h, Value(RMax(h[v].data, Zero), {v}, "relu", v, 0, Zero))

\* relu on a list x of Values: [_single_relu(v) for v in x], from item i on
RECURSIVE relu(_, _, _)
relu(h, x, i) ==
    IF i > Len(x) THEN h ELSE relu(_single_relu(h, x[i]), x, i + 1)

\* Value.__radd__ and Value.__rmul__: other + self is self + other
__radd__(h, s, o) == __add__(h, s, o)
__rmul__(h, s, o) == __mul__(h, s, o)

\* Value.__neg__: self * -1
__neg__(h, s) == __mul__(h, s, <<"f", R(-1)>>)

\* a __sub__ that negates nothing: self + other
__sub__plus(h, s, o) == __add__(h, s, o)

\* Value.__sub__: self + (-other); -other is __neg__ for a Value and the
\* negated number for a plain number
__sub__(h, s, o) ==
    IF IsValue(o)
    THEN LET h1 == __neg__(h, o[2])
         IN  __add__(h1, s, <<"v", Len(h1)>>)
    ELSE __add__(h, s, <<"f", RNeg(o[2])>>)

\* the data of an operand
OperandData(h, o) == IF IsValue(o) THEN h[o[2]].data ELSE o[2]

\* Value.__truediv__: self * other**-1; other**-1 is __pow__ for a Value
\* and a plain number for a plain number (OperandData(h, o) # 0: the
\* power raises ZeroDivisionError otherwise)
__truediv__(h, s, o) ==
    IF IsValue(o)
    THEN LET h1 == __pow__(h, o[2], -1)
         IN  __mul__(h1, s, <<"v", Len(h1)>>)
    ELSE __mul__(h, s, <<"f", RPow(o[2], -1)>>)

\* math.log for the arguments n/d with n, d in 1..10, as ln n - ln d with
\* the logarithms of the integers rounded to tenths
LnTab == <<0, 7, 11, 14, 16, 18, 19, 21, 22, 23>>
InLnTab(x) == x[1] \in DOMAIN LnTab /\ x[2] \in DOMAIN LnTab
MathLog(x) == Rat(LnTab[x[1]] - LnTab[x[2]], 10)
\* math.log raises ValueError (math domain error) for x <= 0
MathLogRaises(x) == ~RLt(Zero, x)

\* Value.log
log(h, s) == Append(h, Value(MathLog(h[s].data), {s}, "log", s, 0, Zero))

\* math.exp for the integers -4..4: exp(k) rounded to an integer for
\* k >= 0, and its reciprocal for k < 0
ExpTab == <<1, 3, 7, 20, 55>>
InExpTab(x) == x[2] = 1 /\ AbsInt(x[1]) + 1 \in DOMAIN ExpTab
MathExp(x) ==
    IF x[1] >= 0 THEN R(ExpTab[x[1] + 1]) ELSE Rat(1, ExpTab[1 - x[1]])

\* tanh._single_tanh: t = (exp(2x) - 1) / (exp(2x) + 1), kept by the closure
TanhT(x) ==
    LET e == MathExp(RMul(R(2), x))
    IN  RDiv(RSub(e, One), RAdd(e, One))
\* a tanh that also records its result among the inputs of its operand
_single_tanh_backlink(h, v) ==
    LET out == Len(h) + 1
        h1 == Append(h, Value(TanhT(h[v].data), {v}, "tanh", v, 0, TanhT(h[v].data)))
    IN  [h1 EXCEPT ![v].prev = @ \cup {out}]

_single_tanh(h, v) ==
    Append(h, Value(TanhT(h[v].data), {v}, "tanh", v, 0, TanhT(h[v].data)))

(* ------------------------- local backward rules ------------------------ *)
\* a bug: the gradient is assigned, not accumulated
AddGradAssign(h, n, g) == [h EXCEPT ![n].grad = g]

\* x.grad += g
AddGrad(h, n, g) == [h EXCEPT ![n].grad = RAdd(h[n].grad, g)]

\* (v.data >= 0) in the place of (v.data > 0)
GtEq0(x) == IF RLt(x, Zero) THEN Zero ELSE One

\* (v.data > 0) as the number Python multiplies with
Gt0(x) == IF RLt(Zero, x) THEN One ELSE Zero

\* whether node n's _backward raises ZeroDivisionError
_backward_raises(h, n) ==
    \/ h[n].op = "**" /\ PowRaises(h[h[n].self].data, h[n].other - 1)
    \/ h[n].op = "log" /\ h[h[n].self].data = Zero

\* a bug: the rule of * multiplies with the operand's own data
_backward_own_data(h, n) ==
    LET s == h[n].self
        o == h[n].other
    IN  CASE h[n].op = "+" ->
               LET h1 == AddGrad(h, s, h[n].grad)
               IN  AddGrad(h1, o, h1[n].grad)
          [] h[n].op = "*" ->
               LET h1 == AddGrad(h, s, RMul(h[s].data, h[n].grad))
               IN  AddGrad(h1, o, RMul(h1[o].data, h1[n].grad))
          [] h[n].op = "**" ->
               AddGrad(h, s, RMul(RMul(R(o), RPow(h[s].data, o - 1)), h[n].grad))
          [] h[n].op = "relu" ->
               AddGrad(h, s, RMul(Gt0(h[s].data), h[n].grad))
          [] OTHER -> h

\* node n's _backward: the two statements run in order, each reading the
\* heap the previous one left.
_backward(h, n) ==
    LET s == h[n].self
        o == h[n].other
    IN  CASE h[n].op = "+" ->
               LET h1 == AddGrad(h, s, h[n].grad)
               IN  AddGrad(h1, o, h1[n].grad)
          [] h[n].op = "*" ->
               LET h1 == AddGrad(h, s, RMul(h[o].data, h[n].grad))
               IN  AddGrad(h1, o, RMul(h1[s].data, h1[n].grad))
          [] h[n].op = "**" ->
               AddGrad(h, s, RMul(RMul(R(o), RPow(h[s].data, o - 1)), h[n].grad))
          [] h[n].op = "log" ->
               AddGrad(h, s, RDiv(h[n].grad, h[s].data))
          [] h[n].op = "tanh" ->
               AddGrad(h, s, RMul(RSub(One, RMul(h[n].t, h[n].t)), h[n].grad))
          [] h[n].op = "relu" ->
               AddGrad(h, s, RMul(Gt0(h[s].data), h[n].grad))
          [] OTHER -> h

(* ------------------------------ actions -------------------------------- *)
Init ==
    /\ vals = <<>>
    /\ pc = "idle"
    /\ root = 0
    /\ topo = <<>>
    /\ idx = 0
    /\ nops = 0
    /\ ret = <<"none">>
    /\ mods = <<>>
    /\ opt = <<>>
    /\ phase = "setup"
    /\ iter = 0
    /\ args = [m |-> 0, x |-> <<>>]
    /\ snap = <<>>
    /\ tok = [merges |-> <<>>, vocab |-> <<>>]
    /\ tkcall = [op |-> "none", text |-> <<>>, ids |-> <<>>, out |-> <<>>, exc |-> ""]
    /\ enc = <<>>
    /\ enccall = [op |-> "none", X |-> <<>>, row |-> <<>>, out |-> <<>>, exc |-> ""]
    /\ thr = <<>>
    /\ hist = <<>>

\* no call is in progress (an exception has returned control to the caller)
Idle == pc \in {"idle", "raised"}

\* Value(d): the caller constructs a leaf (leaves first, then expressions).
NewValue ==
    /\ Idle
    /\ Len(vals) < MaxNodes
    /\ \A i \in Ids(vals) : vals[i].op = ""
    /\ \E d \in LeafData : vals' = Append(vals, Leaf(d))
    /\ ret' = <<"value", Len(vals')>>
    /\ UNCHANGED <<extvars, bwvars, nops, nnvars>>

\* An operation call that returns: h is the heap it leaves, its last Value
\* the one returned.
Built(h) ==
    /\ Idle
    /\ nops < MaxOps
    /\ Len(h) <= MaxNodes
    /\ vals' = h
    /\ ret' = <<"value", Len(h)>>
    /\ nops' = nops + 1
    /\ UNCHANGED <<extvars, bwvars, nnvars>>

\* an operation call that raises exc after it has constructed its result
RaisedAfterValue(exc) ==
    /\ Idle
    /\ nops < MaxOps
    /\ Len(vals) < MaxNodes
    /\ vals' = Append(vals, Leaf(Zero))
    /\ ret' = <<"raise", exc>>
    /\ nops' = nops + 1
    /\ UNCHANGED <<extvars, bwvars, nnvars>>

\* An operation call that raises exc before it constructs a Value.
Raised(exc) ==
    /\ Idle
    /\ nops < MaxOps
    /\ ret' = <<"raise", exc>>
    /\ nops' = nops + 1
    /\ UNCHANGED <<extvars, vals, bwvars, nnvars>>

\* there is room for k more Values (what Built requires of the heap, asked
\* before the heap is built)
Room(k) == Len(vals) + k <= MaxNodes

\* The other operands the caller combines self with: + and * treat self
\* and other alike, and of two Values the caller writes the older one first.
OperandsOf(h, s) == {o \in Operands(h) : IsValue(o) => s <= o[2]}

Add ==
    \E s \in Ids(vals) : \E o \in OperandsOf(vals, s) :
        Room(1) /\ Built(__add__(vals, s, o))

Mul ==
    \E s \in Ids(vals) : \E o \in OperandsOf(vals, s) :
        Room(1) /\ Built(__mul__(vals, s, o))

Pow ==
    \E s \in Ids(vals), k \in PowExps :
        /\ ~PowRaises(vals[s].data, k)
        /\ Room(1)
        /\ Built(__pow__(vals, s, k))

Relu == \E v \in Ids(vals) : Room(1) /\ Built(_single_relu(vals, v))

\* a bug: topo.append(v) before the loop over the children (pre-order)
RECURSIVE _build_topo_preorder(_, _, _), _for_children_preorder(_, _, _)
_build_topo_preorder(h, v, st) ==
    IF v \in st[1]
    THEN {st}
    ELSE _for_children_preorder(h, h[v].prev, <<st[1] \cup {v}, Append(st[2], v)>>)
_for_children_preorder(h, rest, st) ==
    IF rest = {}
    THEN {st}
    ELSE UNION {UNION {_for_children_preorder(h, rest \ {child}, s2) :
                          s2 \in _build_topo_preorder(h, child, st)} : child \in rest}

\* a _build_topo whose topo.append(v) stands outside the if
RECURSIVE _build_topo_append_always(_, _, _), _for_children_append_always(_, _, _)
_build_topo_append_always(h, v, st) ==
    IF v \in st[1]
    THEN {<<st[1], Append(st[2], v)>>}
    ELSE {<<s2[1], Append(s2[2], v)>> :
            s2 \in _for_children_append_always(h, h[v].prev, <<st[1] \cup {v}, st[2]>>)}
_for_children_append_always(h, rest, st) ==
    IF rest = {}
    THEN {st}
    ELSE UNION {UNION {_for_children_append_always(h, rest \ {child}, s2) :
                          s2 \in _build_topo_append_always(h, child, st)} : child \in rest}

\* a _build_topo whose visited set is keyed by the data of the Values
RECURSIVE _build_topo_by_value(_, _, _), _for_children_by_value(_, _, _)
_build_topo_by_value(h, v, st) ==
    IF \E u \in st[1] : h[u].data = h[v].data
    THEN {st}
    ELSE {<<s2[1], Append(s2[2], v)>> :
            s2 \in _for_children_by_value(h, h[v].prev, <<st[1] \cup {v}, st[2]>>)}
_for_children_by_value(h, rest, st) ==
    IF rest = {}
    THEN {st}
    ELSE UNION {UNION {_for_children_by_value(h, rest \ {child}, s2) :
                          s2 \in _build_topo_by_value(h, child, st)} : child \in rest}

\* _build_topo(v) run to its return from the state st = <<visited, topo>>:
\* the states it can return in (a set is iterated in an order the program
\* does not control).
RECURSIVE _build_topo(_, _, _), _for_children(_, _, _)
_build_topo(h, v, st) ==
    IF v \in st[1]
    THEN {st}
    ELSE {<<s2[1], Append(s2[2], v)>> :
            s2 \in _for_children(h, h[v].prev, <<st[1] \cup {v}, st[2]>>)}
\* for child in v._prev: _build_topo(child), rest being the children to come
_for_children(h, rest, st) ==
    IF rest = {}
    THEN {st}
    ELSE UNION {UNION {_for_children(h, rest \ {child}, s2) :
                          s2 \in _build_topo(h, child, st)} : child \in rest}

_topological_sort(h, r) == {st[2] : st \in _build_topo(h, r, <<{}, <<>>>>)}

\* backward() up to its loop: topo = _topological_sort(self); self.grad = 1.0
BackwardFrom(r) ==
    /\ root' = r
    /\ \E t \in _topological_sort(vals, r) :
        /\ topo' = t
        /\ idx' = Len(t)
        /\ pc' = IF t = <<>> THEN "idle" ELSE "rev"
    /\ vals' = [vals EXCEPT ![r].grad = One]

\* The caller's contract: every grad is 0 when backward() is called.
BackwardCall ==
    /\ Idle
    /\ \A i \in Ids(vals) : vals[i].grad = Zero
    /\ \E r \in Ids(vals) : BackwardFrom(r)
    /\ UNCHANGED <<extvars, nops, ret, nnvars>>

\* one iteration of: for node in reversed(topo): node._backward()
BackwardLoop ==
    /\ pc = "rev"
    /\ idx > 0
    /\ IF _backward_raises(vals, topo[idx])
       THEN /\ pc' = "raised"
            /\ ret' = <<"raise", "ZeroDivisionError">>
            /\ UNCHANGED <<extvars, vals, idx>>
       ELSE /\ vals' = _backward(vals, topo[idx])
            /\ idx' = idx - 1
            /\ pc' = IF idx = 1 THEN "idle" ELSE "rev"
            /\ ret' = ret
    /\ UNCHANGED <<extvars, root, topo>>

BackwardStep == BackwardLoop /\ UNCHANGED <<extvars, nops, nnvars>>

\* for node in reversed(topo): node._backward(), from position i down: the
\* heap it leaves and the position it stops at (0: the loop is done; else
\* the _backward of topo[i] raised)
RECURSIVE _loop(_, _, _)
_loop(h, t, i) ==
    IF i = 0
    THEN <<h, 0>>
    ELSE IF _backward_raises(h, t[i])
         THEN <<h, i>>
         ELSE _loop(_backward(h, t[i]), t, i - 1)

\* backward() from its call to its return (topo is gone with the call), under
\* the caller's contract: every grad is 0 when backward() is called
Backward ==
    /\ Idle
    /\ \A i \in Ids(vals) : vals[i].grad = Zero
    /\ \E r \in Ids(vals) : \E t \in _topological_sort(vals, r) :
        LET end == _loop([vals EXCEPT ![r].grad = One], t, Len(t))
        IN  /\ vals' = end[1]
            /\ root' = r
            /\ pc' = IF end[2] = 0 THEN "idle" ELSE "raised"
            /\ ret' = IF end[2] = 0 THEN ret ELSE <<"raise", "ZeroDivisionError">>
    /\ topo' = <<>>
    /\ idx' = 0
    /\ UNCHANGED <<extvars, nops, nnvars>>

Radd == \E s \in Ids(vals), r \in Lits : Room(2) /\ Built(__radd__(vals, s, <<"f", r>>))

Rmul == \E s \in Ids(vals), r \in Lits : Room(2) /\ Built(__rmul__(vals, s, <<"f", r>>))

Neg == \E s \in Ids(vals) : Room(2) /\ Built(__neg__(vals, s))

Sub ==
    \E s \in Ids(vals), o \in Operands(vals) :
        Room(2) /\ Built(__sub__(vals, s, o))

TrueDiv ==
    \E s \in Ids(vals), o \in Operands(vals) :
        IF PowRaises(OperandData(vals, o), -1)
        THEN Raised("ZeroDivisionError")
        ELSE Room(2) /\ Built(__truediv__(vals, s, o))

Log ==
    \E s \in Ids(vals) :
        IF MathLogRaises(vals[s].data)
        THEN Raised("ValueError")
        ELSE Room(1) /\ InLnTab(vals[s].data) /\ Built(log(vals, s))

Tanh ==
    \E v \in Ids(vals) :
        /\ Room(1)
        /\ InExpTab(RMul(R(2), vals[v].data))
        /\ Built(_single_tanh(vals, v))

Next ==
    \/ NewValue
    \/ Add
    \/ Mul
    \/ Pow
    \/ Relu
    \/ BackwardCall
    \/ BackwardStep

Spec == Init /\ [][Next]_vars

\* The caller's misuse: c is put among the inputs of a, a Value that c is
\* built from (or c itself), which closes a cycle. Once, on an acyclic
\* graph, before backward() is called.
AddEdge ==
    /\ Idle
    /\ root = 0
    /\ \A n \in Ids(vals) : \A k \in vals[n].prev : k < n
    /\ \E c \in Ids(vals) : \E a \in Ids(vals) :
        /\ a <= c
        /\ a = c \/ \E k \in vals[c].prev : a = k \/ (k > a /\ a \in vals[k].prev)
        /\ vals' = [vals EXCEPT ![a].prev = @ \cup {c}]
    /\ UNCHANGED <<extvars, bwvars, nops, ret, nnvars>>

\* sums on graphs the caller may have closed to a cycle
NextCyc ==
    \/ NewValue
    \/ Add
    \/ AddEdge
    \/ BackwardCall
    \/ BackwardStep

SpecCyc == Init /\ [][NextCyc]_vars

\* A call of a compound operation that returns: as Built, with room for the
\* Values a - b on two leaves allocates (the -1, the product, the sum).
BuiltCompound(h) ==
    /\ Idle
    /\ nops < MaxOps
    /\ Len(h) <= MaxNodes + 1
    /\ vals' = h
    /\ ret' = <<"value", Len(h)>>
    /\ nops' = nops + 1
    /\ UNCHANGED <<extvars, bwvars, nnvars>>

\* a - b
Minus ==
    \E s \in Ids(vals), o \in Operands(vals) :
        Len(vals) + 1 <= MaxNodes /\ BuiltCompound(__sub__(vals, s, o))

\* a / b
Over ==
    \E s \in Ids(vals), o \in Operands(vals) :
        IF PowRaises(OperandData(vals, o), -1)
        THEN Raised("ZeroDivisionError")
        ELSE Len(vals) + 1 <= MaxNodes /\ BuiltCompound(__truediv__(vals, s, o))

\* differences and quotients, and backward() on them
NextArith ==
    \/ NewValue
    \/ Minus
    \/ Over
    \/ Relu
    \/ Backward

SpecArith == Init /\ [][NextArith]_vars

\* the lists of Values handed to relu: up to two Values, also one twice
ValueLists(h) ==
    {<<>>} \cup {<<v>> : v \in Ids(h)} \cup {<<v, w>> : v \in Ids(h), w \in Ids(h)}

\* relu(x) for a list x of Values
ReluList ==
    /\ Idle
    /\ nops < MaxOps
    /\ \E x \in ValueLists(vals) :
        /\ Room(Len(x))
        /\ vals' = relu(vals, x, 1)
        /\ ret' = <<"list", [i \in 1..Len(x) |-> Len(vals) + i]>>
        /\ args' = [m |-> 0, x |-> x]
    /\ nops' = nops + 1
    /\ UNCHANGED <<extvars, bwvars, mods, opt, phase, iter, snap>>

\* relu on Values and on lists, on leaves and on products
NextRelu ==
    \/ NewValue
    \/ Mul
    \/ Relu
    \/ ReluList
    \/ Backward

SpecRelu == Init /\ [][NextRelu]_vars

\* every differentiable operation
NextOps ==
    \/ NewValue
    \/ Add
    \/ Mul
    \/ Pow
    \/ Relu
    \/ Backward
    \/ Radd
    \/ Rmul
    \/ Neg
    \/ Sub
    \/ TrueDiv
    \/ Log
    \/ Tanh

SpecOps == Init /\ [][NextOps]_vars

(* ------------------------- Module, Neuron, Linear ---------------------- *)
\* An attribute of a Module's __dict__, or an item of a list attribute:
\* a Value, a Module, a list of items, or anything else.
ValueRef(v) == [kind |-> "value", ref |-> v, items |-> <<>>]
ModuleRef(m) == [kind |-> "module", ref |-> m, items |-> <<>>]
ListOf(items) == [kind |-> "list", ref |-> 0, items |-> items]
Other == [kind |-> "other", ref |-> 0, items |-> <<>>]

\* what a constructor draws for a Neuron: in_features weights, then the bias
Draws(n) ==
    {u \in [1..(n + 1) -> Weights \cup Biases] :
        /\ \A i \in 1..n : u[i] \in Weights
        /\ u[n + 1] \in Biases}

\* Neuron.__init__ on st = <<vals, mods>>: the Values of _w, then that of _b
Neuron__init__(st, in_features, u) ==
    LET base == Len(st[1])
        h == st[1] \o [i \in 1..(in_features + 1) |-> Leaf(u[i])]
        self == [cls |-> "Neuron",
                 attrs |-> <<ListOf([i \in 1..in_features |-> ValueRef(base + i)]),
                             ValueRef(base + in_features + 1)>>,
                 in_features |-> in_features]
    IN  <<h, Append(st[2], self)>>

\* [Neuron(in_features) for _ in range(k)], U[j] being the draws of the j-th
RECURSIVE Neurons(_, _, _, _)
Neurons(st, in_features, k, U) ==
    IF k = 0
    THEN st
    ELSE Neuron__init__(Neurons(st, in_features, k - 1, U), in_features, U[k])

\* Linear.__init__
Linear__init__(st, in_features, out_features, U) ==
    LET base == Len(st[2])
        st1 == Neurons(st, in_features, out_features, U)
        self == [cls |-> "Linear",
                 attrs |-> <<ListOf([j \in 1..out_features |-> ModuleRef(base + j)])>>,
                 in_features |-> in_features]
    IN  <<st1[1], Append(st1[2], self)>>

\* Module.parameters: the Values it yields, in order
RECURSIVE parameters(_, _), parameters_of_items(_, _), parameters_of_attrs(_, _)
\* a bug: the attributes are walked last to first
RECURSIVE parameters_of_attrs_reversed(_, _)
parameters_of_attrs_reversed(ms, attrs) ==
    IF attrs = <<>>
    THEN <<>>
    ELSE LET attr == Head(attrs)
             first == CASE attr.kind = "value" -> <<attr.ref>>
                        [] attr.kind = "list" -> parameters_of_items(ms, attr.items)
                        [] attr.kind = "module" -> parameters(ms, attr.ref)
                        [] OTHER -> <<>>
         IN  parameters_of_attrs_reversed(ms, Tail(attrs)) \o first

parameters_of_items(ms, items) ==
    IF items = <<>>
    THEN <<>>
    ELSE LET item == Head(items)
             first == CASE item.kind = "value" -> <<item.ref>>
                        [] item.kind = "module" -> parameters(ms, item.ref)
                        [] OTHER -> <<>>
         IN  first \o parameters_of_items(ms, Tail(items))
parameters_of_attrs(ms, attrs) ==
    IF attrs = <<>>
    THEN <<>>
    ELSE LET attr == Head(attrs)
             first == CASE attr.kind = "value" -> <<attr.ref>>
                        [] attr.kind = "list" -> parameters_of_items(ms, attr.items)
                        [] attr.kind = "module" -> parameters(ms, attr.ref)
                        [] OTHER -> <<>>
         IN  first \o parameters_of_attrs(ms, Tail(attrs))
\* a bug: the order of the walk changes once step() has been called
parameters_unstable(ms, m) ==
    IF iter = 0
    THEN parameters_of_attrs(ms, ms[m].attrs)
    ELSE parameters_of_attrs_reversed(ms, ms[m].attrs)

parameters(ms, m) == parameters_of_attrs(ms, ms[m].attrs)

\* the outcome of a forward call: the heap it leaves and what it returns
\* (or raises)
Outcome(h, r) == [h |-> h, ret |-> r]

Min(a, b) == IF a < b THEN a ELSE b

\* sum((wi * xi for wi, xi in zip(w, x)), acc) from the i-th pair on: each
\* product is built when sum() asks for it, then added to the running sum
RECURSIVE sum(_, _, _, _, _)
sum(h, acc, w, x, i) ==
    IF i > Min(Len(w), Len(x))
    THEN Outcome(h, <<"value", acc>>)
    ELSE LET h1 == __mul__(h, w[i].ref, <<"f", x[i]>>)
             h2 == __add__(h1, acc, <<"v", Len(h1)>>)
         IN  sum(h2, Len(h2), w, x, i + 1)

\* a bug: the sum starts from the first product and leaves the bias out
Neuron_forward_no_bias(h, ms, m, x) ==
    LET w == ms[m].attrs[1].items
    IN  IF Len(x) # Len(w)
        THEN Outcome(h, <<"raise", "ValueError">>)
        ELSE IF Len(w) = 0
             THEN Outcome(h, <<"value", ms[m].attrs[2].ref>>)
             ELSE LET h1 == __mul__(h, w[1].ref, <<"f", x[1]>>)
                  IN  sum(h1, Len(h1), w, x, 2)

\* Neuron.forward
Neuron_forward(h, ms, m, x) ==
    LET w == ms[m].attrs[1].items
    IN  IF Len(x) # Len(w)
        THEN Outcome(h, <<"raise", "ValueError">>)
        ELSE sum(h, ms[m].attrs[2].ref, w, x, 1)

\* [n(x) for n in neurons] from the j-th neuron on, outs being the outputs
\* so far: an exception leaves the comprehension at once
RECURSIVE outs_from(_, _, _, _, _, _)
outs_from(h, ms, neurons, x, j, outs) ==
    IF j > Len(neurons)
    THEN Outcome(h, <<"list", outs>>)
    ELSE LET o == Neuron_forward(h, ms, neurons[j].ref, x)
         IN  IF o.ret[1] = "raise"
             THEN o
             ELSE outs_from(o.h, ms, neurons, x, j + 1, Append(outs, o.ret[2]))

\* a bug: the first neuron computes every output
Linear_forward_first(h, ms, m, x) ==
    LET neurons == ms[m].attrs[1].items
    IN  outs_from(h, ms, [j \in 1..Len(neurons) |-> neurons[1]], x, 1, <<>>)

\* Linear.forward
Linear_forward(h, ms, m, x) ==
    outs_from(h, ms, ms[m].attrs[1].items, x, 1, <<>>)

\* Module.__call__: self.forward(x)
__call__(h, ms, m, x) ==
    IF ms[m].cls = "Neuron"
    THEN Neuron_forward(h, ms, m, x)
    ELSE Linear_forward(h, ms, m, x)

(* ------------------------------ optimizer ------------------------------ *)
\* Optimizer.__init__ raises ValueError for a negative learning rate
\* an Optimizer.__init__ without the check of lr
Optimizer__init__unchecked(lr) == FALSE

Optimizer__init__raises(lr) == RLt(lr, Zero)
\* Optimizer.__init__: self._parameters = list(parameters); self._lr = lr
Optimizer__init__(ps, lr) == [params |-> ps, lr |-> lr]

\* Adam.__init__ after super().__init__(parameters, lr) returned: the
\* beta1, beta2 and epsilon the caller passed, the dicts _m and _v keyed by
\* the parameters, _t = 0.
Adam__init__(ps, lr, beta1, beta2, epsilon) ==
    LET keys == {ps[i] : i \in 1..Len(ps)}
    IN  <<Optimizer__init__(ps, lr),
          [beta1 |-> beta1, beta2 |-> beta2, epsilon |-> epsilon,
           m |-> [p \in keys |-> Zero], v |-> [p \in keys |-> Zero],
           t |-> 0]>>

\* a zero_grad that clears the grad of every Value of the heap
zero_grad_all(h, ps, i) == [n \in DOMAIN h |-> [h[n] EXCEPT !.grad = Zero]]

\* a zero_grad that enumerates the model's parameters anew at each call
zero_grad_live(h, ps, i) ==
    LET now == parameters(mods, Len(mods))
    IN  [v \in DOMAIN h |->
            IF \E j \in 1..Len(now) : now[j] = v
            THEN [h[v] EXCEPT !.grad = Zero]
            ELSE h[v]]

\* a bug: zero_grad resets the positive gradients only
RECURSIVE zero_grad_positive(_, _, _)
zero_grad_positive(h, ps, i) ==
    IF i > Len(ps)
    THEN h
    ELSE zero_grad_positive(
             [h EXCEPT ![ps[i]].grad = IF RLt(Zero, @) THEN Zero ELSE @], ps, i + 1)

\* a bug: zero_grad does nothing
zero_grad_nothing(h, ps, i) == h

\* a bug: zero_grad resets the first parameter only
RECURSIVE zero_grad_first(_, _, _)
zero_grad_first(h, ps, i) ==
    IF i > Min(1, Len(ps))
    THEN h
    ELSE zero_grad_first([h EXCEPT ![ps[i]].grad = Zero], ps, i + 1)

\* Optimizer.zero_grad from the i-th parameter on
RECURSIVE zero_grad(_, _, _)
zero_grad(h, ps, i) ==
    IF i > Len(ps)
    THEN h
    ELSE zero_grad([h EXCEPT ![ps[i]].grad = Zero], ps, i + 1)

\* the data of the Values recomputed from their inputs, in allocation order
\* from the i-th Value on
RECURSIVE recompute(_, _)
recompute(h, i) ==
    IF i > Len(h)
    THEN h
    ELSE LET d == CASE h[i].op = "+" -> RAdd(h[h[i].self].data, h[h[i].other].data)
                    [] h[i].op = "*" -> RMul(h[h[i].self].data, h[h[i].other].data)
                    [] OTHER -> h[i].data
         IN  recompute([h EXCEPT ![i].data = d], i + 1)

\* a step() that runs the forward pass again on the Values built so far
RECURSIVE step_recompute(_, _, _, _)
step_recompute(h, ps, lr, i) ==
    IF i > Len(ps)
    THEN recompute(h, 1)
    ELSE step_recompute([h EXCEPT ![ps[i]].data = RSub(h[ps[i]].data, RMul(lr, h[ps[i]].grad))],
                        ps, lr, i + 1)

\* SGD.step from the i-th parameter on: p.data -= lr * p.grad
RECURSIVE step(_, _, _, _)
step(h, ps, lr, i) ==
    IF i > Len(ps)
    THEN h
    ELSE step([h EXCEPT ![ps[i]].data = RSub(h[ps[i]].data, RMul(lr, h[ps[i]].grad))],
              ps, lr, i + 1)

(* ------------------- programs that use the modules --------------------- *)
\* model = Neuron(in_features)
NeuronInit ==
    /\ phase = "setup"
    /\ mods = <<>>
    /\ \E n \in InFeatures : \E u \in Draws(n) :
        LET st == Neuron__init__(<<vals, mods>>, n, u)
        IN  /\ vals' = st[1]
            /\ mods' = st[2]
            /\ ret' = <<"module", Len(st[2])>>
    /\ UNCHANGED <<extvars, bwvars, nops, opt, phase, iter, args, snap>>

\* model = Linear(in_features, out_features)
LinearInit ==
    /\ phase = "setup"
    /\ mods = <<>>
    /\ \E sh \in LinearShapes : \E U \in [1..sh[2] -> Draws(sh[1])] :
        LET st == Linear__init__(<<vals, mods>>, sh[1], sh[2], U)
        IN  /\ vals' = st[1]
            /\ mods' = st[2]
            /\ ret' = <<"module", Len(st[2])>>
    /\ UNCHANGED <<extvars, bwvars, nops, opt, phase, iter, args, snap>>

\* The attributes a Module subclass written by the caller sets in its
\* __init__, from the parameters ps of the model and the modules ms: two
\* attributes or one list of two Values (the same Value or two), a list
\* beside attributes that are neither Values nor Modules, two Modules.
SubclassAttrs(ps, ms) ==
    LET pairs == IF ps = <<>>
                 THEN {}
                 ELSE {<<ValueRef(ps[1]), ValueRef(q)>> : q \in {ps[1], ps[Len(ps)]}}
    IN  pairs
        \cup {<<ListOf(pr)>> : pr \in pairs}
        \cup {<<Other, ListOf(<<Other, pr[1]>>)>> : pr \in pairs}
        \cup {<<ModuleRef(1), ModuleRef(b)>> : b \in {1, Len(ms)}}

\* an instance of a Module subclass written by the caller, whose __init__
\* stores Values and Modules of the model
ModuleInit ==
    /\ phase = "setup"
    /\ mods # <<>>
    /\ opt = <<>>
    /\ \A m \in 1..Len(mods) : mods[m].cls # "Module"
    /\ \E attrs \in SubclassAttrs(parameters(mods, Len(mods)), mods) :
        mods' = Append(mods, [cls |-> "Module", attrs |-> attrs, in_features |-> 0])
    /\ ret' = <<"module", Len(mods')>>
    /\ UNCHANGED <<extvars, vals, bwvars, nops, opt, phase, iter, args, snap>>

\* list(m.parameters()), at any point between two other calls where the
\* program does not hold the result of a forward pass it still needs
Parameters ==
    /\ Idle
    /\ phase \in {"setup", "zeroed", "bwd", "stepped", "rezeroed", "rebwd", "stopped"}
    /\ \E m \in 1..Len(mods) :
        /\ ret' = <<"params", parameters(mods, m)>>
        /\ args' = [m |-> m, x |-> <<>>]
    /\ UNCHANGED <<extvars, vals, bwvars, nops, mods, opt, phase, iter, snap>>

\* SGD(m.parameters(), lr) for the module m constructed last
OptimizerInit ==
    /\ phase = "setup"
    /\ mods # <<>>
    /\ opt = <<>>
    /\ \E lr \in LRs :
        /\ IF Optimizer__init__raises(lr)
           THEN /\ ret' = <<"raise", "ValueError">>
                /\ opt' = opt
           ELSE /\ ret' = <<"optimizer">>
                /\ opt' = <<Optimizer__init__(parameters(mods, Len(mods)), lr)>>
        /\ args' = [m |-> Len(mods), x |-> <<lr>>]
    /\ UNCHANGED <<extvars, vals, bwvars, nops, mods, phase, iter, snap>>

\* Adam(m.parameters(), lr, beta1, beta2, epsilon) for the module m
\* constructed last
AdamInit ==
    /\ phase = "setup"
    /\ mods # <<>>
    /\ opt = <<>>
    /\ \E lr \in AdamLRs :
        /\ IF Optimizer__init__raises(lr)
           THEN /\ ret' = <<"raise", "ValueError">>
                /\ opt' = opt
           ELSE /\ ret' = <<"optimizer">>
                /\ \E hp \in AdamHypers :
                     opt' = Adam__init__(parameters(mods, Len(mods)), lr,
                                         hp.beta1, hp.beta2, hp.epsilon)
        /\ args' = [m |-> Len(mods), x |-> <<lr>>]
    /\ UNCHANGED <<extvars, vals, bwvars, nops, mods, phase, iter, snap>>

\* the Values a forward call returned
Outputs(r) ==
    CASE r[1] = "value" -> {r[2]}
      [] r[1] = "list" -> {r[2][i] : i \in 1..Len(r[2])}
      [] OTHER -> {}

\* m(x) for a Neuron or a Linear m
Call ==
    /\ phase = "setup"
    /\ \E m \in 1..Len(mods), x \in Xs :
        /\ mods[m].cls # "Module"
        /\ LET o == __call__(vals, mods, m, x)
           IN  /\ vals' = o.h
               /\ ret' = o.ret
        /\ args' = [m |-> m, x |-> x]
    /\ snap' = vals
    /\ phase' = "called"
    /\ UNCHANGED <<extvars, bwvars, nops, mods, opt, iter>>

\* backward() on a Value the forward pass returned, or on the loss
OutBackward ==
    /\ phase \in {"called", "fwd", "loss"}
    /\ \E r \in Outputs(ret) : BackwardFrom(r)
    /\ phase' = "bwd"
    /\ UNCHANGED <<extvars, nops, ret, mods, opt, iter, args, snap>>

\* optimizer.step() of an SGD
SGDStep ==
    /\ phase = "bwd"
    /\ pc = "idle"
    /\ Len(opt) = 1
    /\ vals' = step(vals, opt[1].params, opt[1].lr, 1)
    /\ snap' = vals
    /\ iter' = iter + 1
    /\ phase' = "stepped"
    /\ UNCHANGED <<extvars, bwvars, nops, ret, mods, opt, args>>

\* optimizer.zero_grad(): at the head of an iteration of the training loop,
\* after backward() to run backward() on the same root again, or once more
\* right after a zero_grad()
ZeroGrad ==
    /\ opt # <<>>
    /\ \/ phase = "setup"
       \/ phase = "stepped" /\ iter < MaxIter
       \/ phase = "bwd" /\ pc = "idle"
       \/ phase \in {"zeroed", "rezeroed"}
    /\ vals' = zero_grad(vals, opt[1].params, 1)
    /\ phase' = CASE phase = "bwd" -> "rezeroed"
                  [] phase = "rezeroed" -> "rezeroed"
                  [] OTHER -> "zeroed"
    /\ snap' = IF phase = "bwd" THEN vals ELSE snap
    /\ UNCHANGED <<extvars, bwvars, nops, ret, mods, opt, iter, args>>

\* the forward pass of an iteration: model(x)
Forward ==
    /\ phase = "zeroed"
    /\ \E x \in Xs :
        LET o == __call__(vals, mods, Len(mods), x)
        IN  /\ vals' = o.h
            /\ ret' = o.ret
            /\ args' = [m |-> Len(mods), x |-> x]
            /\ phase' = IF o.ret[1] = "raise" THEN "stopped" ELSE "fwd"
    /\ UNCHANGED <<extvars, bwvars, nops, mods, opt, iter, snap>>

\* loss = out * out for an output of the forward pass
Square ==
    /\ phase = "fwd"
    /\ \E out \in Outputs(ret) : vals' = __mul__(vals, out, <<"v", out>>)
    /\ ret' = <<"value", Len(vals')>>
    /\ phase' = "loss"
    /\ UNCHANGED <<extvars, bwvars, nops, mods, opt, iter, args, snap>>

\* backward() once more on the root of the last backward()
Rebackward ==
    /\ phase = "rezeroed"
    /\ BackwardFrom(root)
    /\ phase' = "rebwd"
    /\ UNCHANGED <<extvars, nops, ret, mods, opt, iter, args, snap>>

\* model.kept = v after backward(): the caller stores a Value of the last
\* forward pass (an output, or the root of backward()) as a new attribute
\* of the model the optimizer was constructed for (once)
AddAttr ==
    /\ phase = "bwd"
    /\ pc = "idle"
    /\ opt # <<>>
    /\ parameters(mods, Len(mods)) = opt[1].params
    /\ \E v \in Outputs(ret) \cup {root} :
        mods' = [mods EXCEPT ![Len(mods)].attrs = Append(@, ValueRef(v))]
    /\ UNCHANGED <<extvars, vals, bwvars, nops, ret, opt, phase, iter, args, snap>>

\* the API of the modules, call by call
NextMod ==
    \/ NeuronInit
    \/ LinearInit
    \/ ModuleInit
    \/ Parameters
    \/ OptimizerInit
    \/ AdamInit
    \/ Call
    \/ OutBackward
    \/ BackwardStep
    \/ SGDStep

SpecMod == Init /\ [][NextMod]_vars

\* the training loop
NextTrain ==
    \/ NeuronInit
    \/ LinearInit
    \/ OptimizerInit
    \/ Parameters
    \/ ZeroGrad
    \/ Forward
    \/ Square
    \/ OutBackward
    \/ BackwardStep
    \/ SGDStep
    \/ Rebackward

SpecTrain == Init /\ [][NextTrain]_vars

\* the training loop of a caller that adds an attribute to the model after
\* the optimizer was constructed
NextGrow ==
    \/ NeuronInit
    \/ LinearInit
    \/ OptimizerInit
    \/ ZeroGrad
    \/ Forward
    \/ Square
    \/ OutBackward
    \/ BackwardStep
    \/ SGDStep
    \/ AddAttr

SpecGrow == Init /\ [][NextGrow]_vars

(* ------------------------ BytePairEncoding ----------------------------- *)
\* A text is a sequence of code points, a chunk of bytes a sequence of
\* 0..255. The characters of the texts: a, b, the space, and e-acute, whose
\* UTF-8 encoding has two bytes.
Chars == {97, 98, 32, 233}
MaxText == 3
MaxMerges == 3
\* "aaabdaaabac"
Wikipedia == <<97, 97, 97, 98, 100, 97, 97, 97, 98, 97, 99>>
Texts == UNION {[1..n -> Chars] : n \in 0..MaxText} \cup {Wikipedia}
VocabSizes == 256..(256 + MaxMerges)

\* \p{L} and \s on the characters of the texts
IsLetter(c) == c \in 97..122 \/ c = 233
IsSpace(c) == c = 32

\* the last position of the run of letters (of spaces) that starts at i
RECURSIVE LettersEnd(_, _)
LettersEnd(text, i) ==
    IF i <= Len(text) /\ IsLetter(text[i]) THEN LettersEnd(text, i + 1) ELSE i - 1

RECURSIVE SpacesEnd(_, _)
SpacesEnd(text, i) ==
    IF i <= Len(text) /\ IsSpace(text[i]) THEN SpacesEnd(text, i + 1) ELSE i - 1

\* The last position of the match of GPT4_SPLIT_PATTERN at i, on letters
\* and spaces: [^\r\n\p{L}\p{N}]?+\p{L}+ takes a run of letters, with one
\* space before it; otherwise \s+(?!\S) takes the spaces up to the one
\* before the next letter, or all of them at the end of the text.
GPT4_SPLIT_PATTERN(text, i) ==
    IF IsLetter(text[i])
    THEN LettersEnd(text, i)
    ELSE IF i < Len(text) /\ IsLetter(text[i + 1])
         THEN LettersEnd(text, i + 1)
         ELSE LET e == SpacesEnd(text, i)
              IN  IF e = Len(text) THEN e ELSE e - 1

\* re.findall(self._compiled_gpt_pattern, text) from position i on
RECURSIVE findall(_, _)
findall(text, i) ==
    IF i > Len(text)
    THEN <<>>
    ELSE LET e == GPT4_SPLIT_PATTERN(text, i)
         IN  <<SubSeq(text, i, e)>> \o findall(text, e + 1)

\* chunk.encode("utf-8") for code points below 2048, from position i on
RECURSIVE encode_utf8(_, _)
encode_utf8(chunk, i) ==
    IF i > Len(chunk)
    THEN <<>>
    ELSE (IF chunk[i] < 128
          THEN <<chunk[i]>>
          ELSE <<192 + (chunk[i] \div 64), 128 + (chunk[i] % 64)>>)
         \o encode_utf8(chunk, i + 1)

\* text_bytes.decode("utf-8", errors="replace") from position i on, for
\* bytes below 224: a byte that starts no valid sequence becomes U+FFFD
RECURSIVE decode_utf8(_, _)
decode_utf8(b, i) ==
    IF i > Len(b)
    THEN <<>>
    ELSE IF b[i] < 128
         THEN <<b[i]>> \o decode_utf8(b, i + 1)
         ELSE IF b[i] \in 194..223 /\ i < Len(b) /\ b[i + 1] \in 128..191
              THEN <<(b[i] - 192) * 64 + (b[i + 1] - 128)>> \o decode_utf8(b, i + 2)
              ELSE <<65533>> \o decode_utf8(b, i + 1)

\* A dict with pairs as keys is a sequence of [key, val] records, in
\* insertion order: d.get(key, default) and d[key] = val.
Has(d, key) == \E k \in 1..Len(d) : d[k].key = key
Get(d, key, default) ==
    IF Has(d, key) THEN d[CHOOSE k \in 1..Len(d) : d[k].key = key].val ELSE default
Set(d, key, val) ==
    IF Has(d, key)
    THEN [k \in 1..Len(d) |-> IF d[k].key = key THEN [key |-> key, val |-> val] ELSE d[k]]
    ELSE Append(d, [key |-> key, val |-> val])

\* _get_stats from the i-th pair of zip(ids, ids[1:]) on
RECURSIVE _get_stats(_, _, _)
_get_stats(ids, counts, i) ==
    IF i >= Len(ids)
    THEN counts
    ELSE LET pair == <<ids[i], ids[i + 1]>>
         IN  _get_stats(ids, Set(counts, pair, Get(counts, pair, 0) + 1), i + 1)

\* a _merge that steps over one id only after it has replaced a pair
RECURSIVE _merge_step_one(_, _, _, _)
_merge_step_one(ids, pair, idx_, i) ==
    IF i > Len(ids)
    THEN <<>>
    ELSE IF ids[i] = pair[1] /\ i < Len(ids) /\ ids[i + 1] = pair[2]
         THEN <<idx_>> \o _merge_step_one(ids, pair, idx_, i + 1)
         ELSE <<ids[i]>> \o _merge_step_one(ids, pair, idx_, i + 1)

\* _merge from position i on (i counts from 1; idx_ is the new token idx)
RECURSIVE _merge(_, _, _, _)
_merge(ids, pair, idx_, i) ==
    IF i > Len(ids)
    THEN <<>>
    ELSE IF ids[i] = pair[1] /\ i < Len(ids) /\ ids[i + 1] = pair[2]
         THEN <<idx_>> \o _merge(ids, pair, idx_, i + 2)
         ELSE <<ids[i]>> \o _merge(ids, pair, idx_, i + 1)

\* self._vocab: the 256 single bytes, then one entry for each merge
vocab_get(vocab, idx_) == IF idx_ < 256 THEN <<idx_>> ELSE vocab[idx_ - 255]
in_vocab(vocab, idx_) == idx_ \in 0..(255 + Len(vocab))

\* max(stats, key=stats.get): the first key, in insertion order, whose count
\* is the largest
MaxCount(stats) ==
    stats[CHOOSE k \in 1..Len(stats) :
            /\ \A j \in 1..Len(stats) : stats[j].val <= stats[k].val
            /\ \A j \in 1..(k - 1) : stats[j].val < stats[k].val].key

\* min(stats, key=lambda p: self._merges.get(p, float("inf"))): the first
\* key, in insertion order, whose merge has the lowest id
Inf == 1000000
MinMerge(merges, stats) ==
    stats[CHOOSE k \in 1..Len(stats) :
            /\ \A j \in 1..Len(stats) :
                 Get(merges, stats[k].key, Inf) <= Get(merges, stats[j].key, Inf)
            /\ \A j \in 1..(k - 1) :
                 Get(merges, stats[k].key, Inf) < Get(merges, stats[j].key, Inf)].key

\* _encode_chunk: the while loop, from the ids it has reached
RECURSIVE _encode_chunk(_, _)
_encode_chunk(merges, ids) ==
    IF Len(ids) < 2
    THEN ids
    ELSE LET pair == MinMerge(merges, _get_stats(ids, <<>>, 1))
         IN  IF ~Has(merges, pair)
             THEN ids
             ELSE _encode_chunk(merges, _merge(ids, pair, Get(merges, pair, Inf), 1))

\* _encode_ordinary: the loop over the chunks, from chunk c on
RECURSIVE _encode_ordinary(_, _, _)
_encode_ordinary(merges, text_chunks, c) ==
    IF c > Len(text_chunks)
    THEN <<>>
    ELSE _encode_chunk(merges, encode_utf8(text_chunks[c], 1))
         \o _encode_ordinary(merges, text_chunks, c + 1)

\* encode, of a tokenizer without special tokens
encode(t, text) == _encode_ordinary(t.merges, findall(text, 1), 1)

\* decode: whether some id is in no vocabulary, and the joined bytes
decode_raises(t, ids) == \E i \in 1..Len(ids) : ~in_vocab(t.vocab, ids[i])
RECURSIVE join(_, _, _)
join(vocab, ids, i) ==
    IF i > Len(ids) THEN <<>> ELSE vocab_get(vocab, ids[i]) \o join(vocab, ids, i + 1)
decode(t, ids) == decode_utf8(join(t.vocab, ids, 1), 1)

\* train: stats over all chunks, from chunk c on
RECURSIVE all_stats(_, _, _)
all_stats(ids, stats, c) ==
    IF c > Len(ids) THEN stats ELSE all_stats(ids, _get_stats(ids[c], stats, 1), c + 1)

\* train: iteration i of the loop over range(num_merges). max() of an empty
\* stats raises ValueError before self._merges and self._vocab are assigned.
RECURSIVE train_loop(_, _, _, _, _)
train_loop(ids, merges, vocab, i, num_merges) ==
    IF i = num_merges
    THEN [exc |-> "", merges |-> merges, vocab |-> vocab]
    ELSE LET stats == all_stats(ids, <<>>, 1)
         IN  IF stats = <<>>
             THEN [exc |-> "ValueError", merges |-> merges, vocab |-> vocab]
             ELSE LET pair == MaxCount(stats)
                      idx_ == 256 + i
                  IN  train_loop([c \in 1..Len(ids) |-> _merge(ids[c], pair, idx_, 1)],
                                 Set(merges, pair, idx_),
                                 Append(vocab, vocab_get(vocab, pair[1])
                                               \o vocab_get(vocab, pair[2])),
                                 i + 1, num_merges)

train(text, vocab_size) ==
    LET text_chunks == findall(text, 1)
        ids == [c \in 1..Len(text_chunks) |-> encode_utf8(text_chunks[c], 1)]
    IN  train_loop(ids, <<>>, <<>>, 0, vocab_size - 256)

Called(op, text, ids, out, exc) ==
    [op |-> op, text |-> text, ids |-> ids, out |-> out, exc |-> exc]

\* tokenizer.train(text, vocab_size), before the tokenizer is used
Train ==
    /\ tkcall.op \in {"none", "train"}
    /\ \E text \in Texts, vocab_size \in VocabSizes :
        LET r == train(text, vocab_size)
        IN  /\ tok' = IF r.exc = ""
                      THEN [merges |-> r.merges, vocab |-> r.vocab]
                      ELSE tok
            /\ tkcall' = Called("train", <<>>, <<>>, <<>>, r.exc)
    /\ UNCHANGED <<thr, hist, vals, bwvars, nops, ret, nnvars, enc, enccall>>

\* ids = tokenizer.encode(text)
Encode ==
    /\ tkcall.op \in {"none", "train"}
    /\ \E text \in Texts : tkcall' = Called("encode", text, encode(tok, text), <<>>, "")
    /\ UNCHANGED <<thr, hist, vals, bwvars, nops, ret, nnvars, tok, enc, enccall>>

\* tokenizer.decode(ids) for the ids encode returned
Decode ==
    /\ tkcall.op = "encode"
    /\ tkcall' = IF decode_raises(tok, tkcall.ids)
                 THEN [tkcall EXCEPT !.op = "decode", !.exc = "ValueError"]
                 ELSE [tkcall EXCEPT !.op = "decode", !.out = decode(tok, tkcall.ids)]
    /\ UNCHANGED <<thr, hist, vals, bwvars, nops, ret, nnvars, tok, enc, enccall>>

NextTok ==
    \/ Train
    \/ Encode
    \/ Decode

SpecTok == Init /\ [][NextTok]_vars

(* --------------------------- OneHotEncoder ----------------------------- *)
\* The values of the cells, the rows (two columns), and the data handed to
\* fit: one row or two.
Cells == 0..1
Rows == {<<a, b>> : a \in Cells, b \in Cells}
Datasets == {<<r>> : r \in Rows} \cup {<<r, q>> : r \in Rows, q \in Rows}
HandleUnknown == {"error", "ignore"}

\* OneHotEncoder.__init__
OneHotEncoder__init__(handle_unknown) ==
    [handle_unknown |-> handle_unknown, categories |-> <<>>,
     value_to_idx |-> <<>>, idx_to_value |-> <<>>, dimension |-> 0]

\* zip(*X): the columns of the data
Columns(X) ==
    IF X = <<>>
    THEN <<>>
    ELSE [c \in 1..Len(X[1]) |-> [r \in 1..Len(X) |-> X[r][c]]]

\* np.unique(col): the values of the column, sorted, each once
RECURSIVE Sorted(_)
Sorted(S) ==
    IF S = {}
    THEN <<>>
    ELSE LET least == CHOOSE x \in S : \A y \in S : x <= y
         IN  <<least>> \o Sorted(S \ {least})
unique(col) == Sorted({col[r] : r \in 1..Len(col)})

\* fit: the loops over the categories and their values, from value k of
\* category c on; the dicts are sequences of [key, val] in insertion order
RECURSIVE fit_loop(_, _, _, _)
fit_loop(e, c, k, i) ==
    IF c > Len(e.categories)
    THEN [e EXCEPT !.dimension = i]
    ELSE IF k > Len(e.categories[c])
         THEN fit_loop(e, c + 1, 1, i)
         ELSE LET value == e.categories[c][k]
              IN  fit_loop([e EXCEPT !.value_to_idx = Set(@, value, i),
                                     !.idx_to_value = Set(@, i, value)],
                           c, k + 1, i + 1)

\* fit
fit(e, X) ==
    LET cols == Columns(X)
    IN  fit_loop([e EXCEPT !.categories = [c \in 1..Len(cols) |-> unique(cols[c])]],
                 1, 1, 0)

\* _row_to_one_hot: the loop over the row from position j on; the ids it
\* collects or the KeyError it raises
RECURSIVE row_ids(_, _, _)
row_ids(e, row, j) ==
    IF j > Len(row)
    THEN [exc |-> "", ids |-> <<>>]
    ELSE LET rest == row_ids(e, row, j + 1)
         IN  IF Has(e.value_to_idx, row[j])
             THEN [rest EXCEPT !.ids = <<Get(e.value_to_idx, row[j], 0)>> \o @]
             ELSE IF e.handle_unknown = "error"
                  THEN [exc |-> "KeyError", ids |-> <<>>]
                  ELSE rest

\* _row_to_one_hot: one_hot[ids] = 1 raises IndexError for an index that
\* is not below self._dimension
_row_to_one_hot(e, row) ==
    LET r == row_ids(e, row, 1)
    IN  IF r.exc # ""
        THEN [exc |-> r.exc, out |-> <<>>]
        ELSE IF \E j \in 1..Len(r.ids) : r.ids[j] >= e.dimension
             THEN [exc |-> "IndexError", out |-> <<>>]
             ELSE [exc |-> "",
                   out |-> [i \in 1..e.dimension |->
                              IF \E j \in 1..Len(r.ids) : r.ids[j] = i - 1 THEN 1 ELSE 0]]

\* encoder = OneHotEncoder(handle_unknown)
OneHotEncoderInit ==
    /\ enc = <<>>
    /\ \E handle_unknown \in HandleUnknown : enc' = <<OneHotEncoder__init__(handle_unknown)>>
    /\ UNCHANGED <<thr, hist, vals, bwvars, nops, ret, nnvars, tok, tkcall, enccall>>

\* encoder.fit(X)
Fit ==
    /\ enc # <<>>
    /\ enccall.op \in {"none", "fit"}
    /\ \E X \in Datasets :
        /\ enc' = <<fit(enc[1], X)>>
        /\ enccall' = [op |-> "fit", X |-> X, row |-> <<>>, out |-> <<>>, exc |-> ""]
    /\ UNCHANGED <<thr, hist, vals, bwvars, nops, ret, nnvars, tok, tkcall>>

\* encoder.transform([row])
Transform ==
    /\ enc # <<>>
    /\ enccall.op \in {"none", "fit"}
    /\ \E row \in Rows :
        LET r == _row_to_one_hot(enc[1], row)
        IN  enccall' = [enccall EXCEPT !.op = "transform", !.row = row,
                                       !.out = r.out, !.exc = r.exc]
    /\ UNCHANGED <<thr, hist, vals, bwvars, nops, ret, nnvars, tok, tkcall, enc>>

NextEnc ==
    \/ OneHotEncoderInit
    \/ Fit
    \/ Transform

SpecEnc == Init /\ [][NextEnc]_vars

(* ------------------- the exact derivative, by paths -------------------- *)
\* the Values reachable from r over _prev
RECURSIVE ReachFrom(_, _, _)
ReachFrom(h, frontier, seen) ==
    IF frontier = {}
    THEN seen
    ELSE LET new == UNION {h[n].prev : n \in frontier} \ seen
         IN  ReachFrom(h, new, seen \cup new)
Reach(h, r) == ReachFrom(h, {r}, {r})

\* d m / d n for an input n of m: one term for each operand slot holding n
LocalDeriv(h, m, n) ==
    LET s == h[m].self
        o == h[m].other
    IN  CASE h[m].op = "+" ->
               RAdd(IF s = n THEN One ELSE Zero, IF o = n THEN One ELSE Zero)
          [] h[m].op = "*" ->
               RAdd(IF s = n THEN h[o].data ELSE Zero,
                    IF o = n THEN h[s].data ELSE Zero)
          [] h[m].op = "**" -> RMul(R(o), RPow(h[s].data, o - 1))
          [] h[m].op = "relu" -> Gt0(h[s].data)
          [] h[m].op = "log" -> RInv(h[s].data)
          [] h[m].op = "tanh" -> RSub(One, RMul(h[m].t, h[m].t))
          [] OTHER -> Zero

\* d r / d n: the sum over the paths from r to n of the product of the
\* local derivatives, grouped by the last consumer m of n on the path
RECURSIVE Deriv(_, _, _), DerivSum(_, _, _, _)
Deriv(h, r, n) ==
    IF n = r
    THEN One
    ELSE DerivSum(h, r, n, {m \in Reach(h, r) : n \in h[m].prev})
DerivSum(h, r, n, ms) ==
    IF ms = {}
    THEN Zero
    ELSE LET m == CHOOSE x \in ms : TRUE
         IN  RAdd(RMul(Deriv(h, r, m), LocalDeriv(h, m, n)),
                  DerivSum(h, r, n, ms \ {m}))

\* the last backward() call has returned normally
BackwardDone == pc = "idle" /\ root # 0

IsLeaf(h, n) == h[n].op = ""

(* ------------------------------- claims -------------------------------- *)
\* C1: after backward() on a root (every grad 0 before the call), every
\* Value reachable from the root holds the exact partial derivative of the
\* root with respect to it; for c = a*b on distinct leaves, a.grad == b.data
\* and b.grad == a.data.
GradientCorrect ==
    BackwardDone =>
        /\ \A n \in Reach(vals, root) : vals[n].grad = Deriv(vals, root, n)
        /\ LET a == vals[root].self
               b == vals[root].other
           IN  (vals[root].op = "*" /\ a # b /\ IsLeaf(vals, a) /\ IsLeaf(vals, b))
                   => vals[a].grad = vals[b].data /\ vals[b].grad = vals[a].data

\* c = a*b, a = -4.0, b = 3.0: a.grad == 3.0 and b.grad == -4.0
GradientCorrectWitness ==
    /\ BackwardDone
    /\ vals[root].op = "*"
    /\ LET a == vals[root].self
           b == vals[root].other
       IN  /\ a # b
           /\ vals[a].data = R(-4) /\ vals[b].data = R(3)
           /\ vals[a].grad = R(3) /\ vals[b].grad = R(-4)

\* y is x*x + k on a leaf x and a constant k
SquarePlusK(h, y) ==
    /\ h[y].op = "+"
    /\ LET m == h[y].self
           k == h[y].other
       IN  /\ h[m].op = "*"
           /\ h[m].self = h[m].other
           /\ IsLeaf(h, h[m].self)
           /\ IsLeaf(h, k)
           /\ k # h[m].self

\* C2: a Value used twice receives the sum of both contributions: for
\* y = x*x + k, after y.backward(), y.data == x.data**2 + k and
\* x.grad == 2 * x.data.
Accumulation ==
    (BackwardDone /\ SquarePlusK(vals, root)) =>
        LET x == vals[vals[root].self].self
            k == vals[root].other
        IN  /\ vals[root].data = RAdd(RMul(vals[x].data, vals[x].data), vals[k].data)
            /\ vals[x].grad = RMul(R(2), vals[x].data)

\* x = 2.0, k = 3: y.data == 7.0 and x.grad == 4.0
AccumulationWitness ==
    /\ BackwardDone
    /\ SquarePlusK(vals, root)
    /\ LET x == vals[vals[root].self].self
       IN  /\ vals[x].data = R(2)
           /\ vals[vals[root].other].data = R(3)
           /\ vals[root].data = R(7)
           /\ vals[x].grad = R(4)

\* the Values whose _backward the loop of the last backward() has run
Executed == {topo[j] : j \in (idx + 1)..Len(topo)}

\* C3: during backward(), when the local backward rule of a Value n has
\* run, the rule of every Value m of the graph that uses n as an input has
\* run before it.
TopologicalValidity ==
    root # 0 =>
        \A n \in Executed : \A m \in Reach(vals, root) :
            n \in vals[m].prev => (m # n /\ m \in Executed)

\* the rule of a shared Value (one with two consumers) is about to run, both
\* consumers done
TopologicalValidityWitness ==
    /\ pc = "rev"
    /\ LET n == topo[idx]
           users == {m \in Reach(vals, root) : n \in vals[m].prev}
       IN  /\ Cardinality(users) >= 2
           /\ users \subseteq Executed

\* the parameters the optimizer owns
Owned == {opt[1].params[i] : i \in 1..Len(opt[1].params)}

\* backward(); zero_grad(); backward() on the same root has returned
RepeatedBackwardDone == phase = "rebwd" /\ pc = "idle"

\* every owned parameter's grad is what it was after the first backward()
SameGradsAsFirst == \A p \in Owned : vals[p].grad = snap[p].grad

BeforeStep == phase = "bwd" /\ pc = "idle" /\ opt # <<>>

\* C5: in the training loop zero_grad() -> forward -> backward() -> step(),
\* the grad of each parameter that step() reads is the exact derivative of
\* this iteration's root with respect to it.
GradsOfThisIteration ==
    BeforeStep => \A p \in Owned : vals[p].grad = Deriv(vals, root, p)

\* in a later iteration a parameter has a gradient other than the one the
\* previous step() read
GradsOfThisIterationWitness ==
    /\ BeforeStep
    /\ iter >= 1
    /\ \E p \in Owned :
        /\ vals[p].grad # Zero
        /\ snap[p].grad # Zero
        /\ vals[p].grad # snap[p].grad

\* data and grad of every Value that exists before the step are the same
\* after it
ExistingUnchanged ==
    \A n \in Ids(vals) :
        /\ n \in Ids(vals')
        /\ vals'[n].data = vals[n].data
        /\ vals'[n].grad = vals[n].grad

\* the step is a call of backward()
IsBackward == root' # root \/ (nops' = nops /\ Len(vals') = Len(vals))

\* C6: every operation call (+, *, **, negation, -, /, log, tanh, relu)
\* leaves data and grad of the Values that existed before it unchanged; they
\* change only in backward().
OperationsArePure ==
    [][/\ nops' # nops => (ExistingUnchanged /\ ~IsBackward)
       /\ ~IsBackward => ExistingUnchanged]_vars

\* after a backward(), tanh or log has been applied to a Value that carries
\* a gradient
OperationsArePureWitness ==
    /\ BackwardDone
    /\ \E n \in Ids(vals) :
        /\ n > root
        /\ vals[n].op \in {"tanh", "log", "*"}
        /\ vals[vals[n].self].grad # Zero
        /\ vals[vals[n].self].data # Zero

\* the weights and the bias of the Neuron m
WeightsOf(m) == mods[m].attrs[1].items
BiasOf(m) == mods[m].attrs[2].ref

\* bias.data + sum over i <= n of weight_i.data * x_i
RECURSIVE WeightedSum(_, _, _, _)
WeightedSum(h, m, x, n) ==
    IF n = 0
    THEN h[BiasOf(m)].data
    ELSE RAdd(WeightedSum(h, m, x, n - 1), RMul(h[WeightsOf(m)[n].ref].data, x[n]))

\* forward of a Neuron has been called with as many inputs as it has weights
NeuronCalled ==
    /\ phase = "called"
    /\ mods[args.m].cls = "Neuron"
    /\ Len(args.x) = Len(WeightsOf(args.m))

\* weights [0.5, -0.5], bias 0.0, inputs [2.0, 2.0]
NeuronExample ==
    /\ args.x = <<R(2), R(2)>>
    /\ vals[WeightsOf(args.m)[1].ref].data = Rat(1, 2)
    /\ vals[WeightsOf(args.m)[2].ref].data = Rat(-1, 2)
    /\ vals[BiasOf(args.m)].data = Zero

\* C7: Neuron.forward(x) with len(x) equal to the number of weights returns
\* one Value whose data is bias.data + sum of weight_i.data * x_i; weights
\* [0.5, -0.5], bias 0.0 and inputs [2.0, 2.0] give data 0.0.
NeuronOutput ==
    NeuronCalled =>
        /\ ret[1] = "value"
        /\ vals[ret[2]].data = WeightedSum(vals, args.m, args.x, Len(args.x))
        /\ NeuronExample => vals[ret[2]].data = Zero

NeuronOutputWitness ==
    /\ NeuronCalled
    /\ NeuronExample
    /\ ret[1] = "value"
    /\ vals[ret[2]].data = Zero
    /\ ret[2] # BiasOf(args.m)

\* forward of a Linear layer has been called with in_features inputs
LinearCalled ==
    /\ phase = "called"
    /\ mods[args.m].cls = "Linear"
    /\ Len(args.x) = mods[args.m].in_features

\* the Values parameters() of module m yields
ParamSet(m) == LET ps == parameters(mods, m) IN {ps[i] : i \in 1..Len(ps)}

\* C8: Linear.forward(x) returns one output per neuron, in the order of
\* the neurons (out_features of them); output i is what neuron i computes
\* from x, and no parameter of another neuron is in its graph.
LinearOutputs ==
    LinearCalled =>
        LET neurons == mods[args.m].attrs[1].items
        IN  /\ ret[1] = "list"
            /\ Len(ret[2]) = Len(neurons)
            /\ \A i \in 1..Len(neurons) :
                LET n == neurons[i].ref
                    g == Reach(vals, ret[2][i])
                IN  /\ vals[ret[2][i]].data = WeightedSum(vals, n, args.x, Len(args.x))
                    /\ ParamSet(n) \subseteq g
                    /\ \A j \in 1..Len(neurons) :
                        j # i => ParamSet(neurons[j].ref) \cap g = {}

\* a layer of two neurons with one input each has returned two outputs
\* with different data
LinearOutputsWitness ==
    /\ LinearCalled
    /\ mods[args.m].in_features = 1
    /\ ret[1] = "list"
    /\ Len(ret[2]) = 2
    /\ vals[ret[2][1]].data # vals[ret[2][2]].data

\* C9: forward of a Neuron or a Linear layer with an input sequence whose
\* length differs from in_features raises ValueError, creates no Value and
\* changes no data or grad.
ShapeMismatchRaises ==
    (phase = "called" /\ Len(args.x) # mods[args.m].in_features) =>
        /\ ret[1] = "raise"
        /\ ret[2] = "ValueError"
        /\ vals = snap

\* C10: parameters() yields no Value twice, and step() of an optimizer
\* built from it updates every Value it owns once.
ParametersOnce ==
    /\ ret[1] = "params" =>
        \A i, j \in 1..Len(ret[2]) : ret[2][i] = ret[2][j] => i = j
    /\ phase = "stepped" =>
        \A p \in Owned :
            vals[p].data = RSub(snap[p].data, RMul(opt[1].lr, snap[p].grad))

\* the Values a Module holds: as attributes, as items of its list
\* attributes, and those its Modules (attributes or list items) hold
RECURSIVE OwnedValues(_)
OwnedValues(m) ==
    LET attrs == mods[m].attrs
        held == {attrs[a] : a \in 1..Len(attrs)}
                    \cup UNION {{attrs[a].items[i] : i \in 1..Len(attrs[a].items)} :
                                   a \in 1..Len(attrs)}
    IN  {r.ref : r \in {h \in held : h.kind = "value"}}
            \cup UNION {OwnedValues(r.ref) : r \in {h \in held : h.kind = "module"}}

\* the weights of the Neuron n in index order, then its bias
NeuronParams(n) ==
    [i \in 1..(Len(WeightsOf(n)) + 1) |->
        IF i <= Len(WeightsOf(n)) THEN WeightsOf(n)[i].ref ELSE BiasOf(n)]

\* NeuronParams of the first k neurons of a list, one after the other
RECURSIVE NeuronByNeuron(_, _)
NeuronByNeuron(neurons, k) ==
    IF k = 0
    THEN <<>>
    ELSE NeuronByNeuron(neurons, k - 1) \o NeuronParams(neurons[k].ref)

\* list(m.parameters()) has returned
ParametersReturned == phase = "setup" /\ ret[1] = "params"

ParametersDeterministic ==
    (ret[1] = "params" /\ opt # <<>> /\ args.m = Len(mods)) =>
        ret[2] = opt[1].params

\* the second call comes after a forward pass, a backward pass, a step and
\* a zero_grad
ParametersDeterministicWitness ==
    /\ ret[1] = "params"
    /\ opt # <<>>
    /\ args.m = Len(mods)
    /\ phase = "zeroed"
    /\ iter >= 1
    /\ Len(ret[2]) >= 2
    /\ \E p \in Owned : vals[p].data # snap[p].data

\* zero_grad() has returned and nothing but parameters() was called since
AfterZeroGrad == phase \in {"zeroed", "rezeroed"}

\* C13: zero_grad() sets the grad of every parameter the optimizer owns to
\* 0 whatever it was, and a second zero_grad() right after it leaves every
\* Value as the first one left it.
ZeroGradIdempotent ==
    [][/\ AfterZeroGrad' => \A p \in Owned' : vals'[p].grad = Zero
       /\ (AfterZeroGrad /\ phase' = phase) => vals' = vals]_vars

\* zero_grad() has reset a negative and a positive gradient
ZeroGradIdempotentWitness ==
    /\ phase = "rezeroed"
    /\ \E p, q \in Owned :
        /\ RLt(snap[p].grad, Zero)
        /\ RLt(Zero, snap[q].grad)
        /\ vals[p].grad = Zero
        /\ vals[q].grad = Zero

\* C14: after each SGD.step() call every parameter the optimizer owns has
\* the data it had before the call minus lr times its grad, applied once.
StepOncePerParameter ==
    phase = "stepped" =>
        \A p \in Owned :
            /\ vals[p].grad = snap[p].grad
            /\ vals[p].data = RSub(snap[p].data, RMul(opt[1].lr, snap[p].grad))

\* A step that is a call of SGD(...) or Adam(...): in the setup phase these
\* are the only calls that return an optimizer or raise.
ConstructorCall ==
    /\ phase = "setup"
    /\ phase' = "setup"
    /\ ret'[1] \in {"optimizer", "raise"}
    /\ Len(args'.x) = 1

\* C15: constructing an SGD or an Adam with a negative learning rate raises
\* ValueError, leaves no optimizer behind and changes no Value; with a
\* learning rate >= 0, 0 included, the optimizer is constructed with that
\* learning rate.
NegativeLrRejected ==
    [][ConstructorCall =>
        LET lr == args'.x[1]
        IN  /\ vals' = vals
            /\ IF RLt(lr, Zero)
               THEN /\ ret'[1] = "raise"
                    /\ ret'[2] = "ValueError"
                    /\ opt' = <<>>
               ELSE /\ ret'[1] = "optimizer"
                    /\ Len(opt') \in {1, 2}
                    /\ opt'[1].lr = lr]_vars

NegativeLrRejectedWitness ==
    /\ phase = "setup"
    /\ ret[1] = "raise"
    /\ ret[2] = "ValueError"
    /\ Len(args.x) = 1
    /\ RLt(args.x[1], Zero)
    /\ opt = <<>>
    /\ Len(vals) > 0

\* the Values the model holds as attributes that the optimizer's list does
\* not hold: those added after the optimizer was constructed
AddedLater ==
    {v \in Ids(vals) :
        /\ \E a \in 1..Len(mods[Len(mods)].attrs) :
              mods[Len(mods)].attrs[a] = ValueRef(v)
        /\ v \notin Owned}

\* C16: the optimizer's list is the one captured at construction, at every
\* call: a zero_grad() sets the grad of exactly the captured Values to 0, a
\* step() updates the data of exactly the captured Values, and neither
\* changes any other Value, a Value added to the model later included.
CapturedOnce ==
    [][opt # <<>> =>
        /\ opt' = opt
        /\ phase' \in {"zeroed", "rezeroed"} =>
              \A v \in Ids(vals) :
                  vals'[v] = IF v \in Owned
                             THEN [vals[v] EXCEPT !.grad = Zero]
                             ELSE vals[v]
        /\ iter' = iter + 1 =>
              \A v \in Ids(vals) :
                  vals'[v] = IF v \in Owned
                             THEN [vals[v] EXCEPT !.data =
                                      RSub(@, RMul(opt[1].lr, vals[v].grad))]
                             ELSE vals[v]]_vars

\* the second step() has returned; the model holds a Value added after the
\* optimizer was constructed, whose grad is not 0
CapturedOnceWitness ==
    /\ phase = "stepped"
    /\ iter = 2
    /\ \E v \in AddedLater : vals[v].grad # Zero
    /\ \E p \in Owned : vals[p].data # snap[p].data

\* the Values that have s among their operands
Users(s) == {n \in Ids(vals) : s \in vals[n].prev}

\* a log call that raised: the only operation call that raises ValueError
LogRaised ==
    /\ nops' = nops + 1
    /\ ret'[1] = "raise"
    /\ ret'[2] = "ValueError"

\* a log call that returned its result
LogReturned ==
    /\ Len(vals') = Len(vals) + 1
    /\ vals'[Len(vals')].op = "log"

\* the log nodes of the graph of the last backward() that are the only
\* user of their input
SoleLogs ==
    {n \in Reach(vals, root) : vals[n].op = "log" /\ Users(vals[n].self) = {n}}

\* C17: log of a Value whose data is <= 0 raises at the call, creating no
\* Value and changing none; a log node exists only for data > 0, and its
\* backward rule adds out.grad / data to the grad of its input.
LogContract ==
    /\ [][/\ LogRaised =>
              /\ vals' = vals
              /\ \E s \in Ids(vals) : ~RLt(Zero, vals[s].data)
          /\ LogReturned =>
              /\ RLt(Zero, vals[vals'[Len(vals')].self].data)
              /\ \A v \in Ids(vals) : vals'[v] = vals[v]]_vars
    /\ [](BackwardDone =>
            \A n \in SoleLogs :
                vals[vals[n].self].grad = RDiv(vals[n].grad, vals[vals[n].self].data))

\* a log call raised and, elsewhere in the heap, backward() has run through
\* a log node whose gradient is not 0
LogContractWitness ==
    /\ ret[1] = "raise"
    /\ ret[2] = "ValueError"
    /\ BackwardDone
    /\ \E n \in SoleLogs : vals[n].grad # Zero /\ vals[vals[n].self].grad # Zero

\* the bytes of a text: the UTF-8 encodings of its chunks, joined
BytesOf(text) == encode_utf8(text, 1)

\* C18: decode(encode(text)) == text for every text, on the tokenizer as
\* constructed and after every train(): the ids encode returns decode to
\* the bytes of the text, whatever merges were applied.
RoundTrip ==
    tkcall.op = "decode" =>
        /\ tkcall.exc = ""
        /\ tkcall.out = tkcall.text
        /\ join(tok.vocab, tkcall.ids, 1) = BytesOf(tkcall.text)

\* a trained tokenizer has decoded a text with a two-byte character that its
\* merges shortened
RoundTripWitness ==
    /\ tkcall.op = "decode"
    /\ tok.merges # <<>>
    /\ Len(tkcall.ids) < Len(BytesOf(tkcall.text))
    /\ \E i \in 1..Len(tkcall.text) : tkcall.text[i] = 233
    /\ tkcall.out = tkcall.text

\* the value in column c of the row did not occur in column c of the data
\* of the most recent fit()
UnknownIn(row, X) ==
    \E c \in 1..Len(row) : \A r \in 1..Len(X) : X[r][c] # row[c]

\* C19: with handle_unknown='error', transform raises KeyError for every
\* row that holds, in some column, a value that did not occur in that
\* column of the data of the most recent fit().
UnknownRaisesKeyError ==
    (/\ enc # <<>>
     /\ enccall.op = "transform"
     /\ enc[1].handle_unknown = "error"
     /\ UnknownIn(enccall.row, enccall.X)) => enccall.exc = "KeyError"

\* how often the Value n is in topo
TimesIn(t, n) == Cardinality({j \in 1..Len(t) : t[j] = n})

\* C20: in one backward() call the rule of every Value reachable from the
\* root is executed exactly once, however many paths lead to it: topo
\* holds each reachable Value once and nothing else, Values with equal data
\* included, and the loop has run each of them when backward() returns.
EachRuleOnce ==
    root # 0 =>
        /\ \A n \in Reach(vals, root) : TimesIn(topo, n) = 1
        /\ \A j \in 1..Len(topo) : topo[j] \in Reach(vals, root)
        /\ pc = "idle" => Executed = Reach(vals, root)

\* backward() has returned on a graph with a Value that two Values use and
\* two distinct Values of equal data
EachRuleOnceWitness ==
    /\ BackwardDone
    /\ \E n \in Reach(vals, root) :
          Cardinality({m \in Reach(vals, root) : n \in vals[m].prev}) >= 2
    /\ \E n, m \in Reach(vals, root) : n # m /\ vals[n].data = vals[m].data

\* the inputs of the Values that exist are what they were
InputsUnchanged ==
    \A v \in Ids(vals) :
        /\ vals'[v].prev = vals[v].prev
        /\ vals'[v].self = vals[v].self
        /\ vals'[v].other = vals[v].other
        /\ vals'[v].op = vals[v].op

\* C21: after any sequence of operations the graph is acyclic: the inputs
\* of a Value are Values constructed before it, no Value is reachable from
\* one of its inputs, and no step changes the inputs of an existing Value.
Acyclic ==
    /\ [](\A n \in Ids(vals) :
            /\ \A c \in vals[n].prev : c < n /\ n \notin Reach(vals, c))
    /\ [][Len(vals') >= Len(vals) /\ InputsUnchanged]_vars

\* a Value built by two operations on top of each other, with a Value that
\* is used twice
AcyclicWitness ==
    /\ nops = MaxOps
    /\ \E n, m \in Ids(vals) :
        /\ vals[n].op \in {"tanh", "log", "relu", "**"}
        /\ n \in vals[m].prev
        /\ Cardinality({u \in Ids(vals) : vals[n].self \in vals[u].prev}) >= 2

\* the Value n is reachable from itself over inputs edges
OnCycle(n) == \E c \in vals[n].prev : n \in Reach(vals, c)

\* the graph of the root of backward() has a cycle
CyclicGraph == root # 0 /\ \E n \in Reach(vals, root) : OnCycle(n)

SubValue(n) ==
    /\ n >= 3
    /\ vals[n].op = "+"
    /\ vals[n].other = n - 1
    /\ vals[n - 1].op = "*"
    /\ vals[n - 1].other = n - 2
    /\ vals[n - 2].op = ""

\* n is the result of a - r or of a / r for a plain number r: the lifted
\* number is allocated right before it
WithNumber(n, op) ==
    /\ n >= 2
    /\ vals[n].op = op
    /\ vals[n].other = n - 1
    /\ vals[n - 1].op = ""

\* n is the result of a / b for a Value b: a * b**-1
DivValue(n) ==
    /\ n >= 2
    /\ vals[n].op = "*"
    /\ vals[n].other = n - 1
    /\ vals[n - 1].op = "**"

\* backward() has run through n, and a, b and the intermediate Value of n
\* are used by n alone
Through(n, a, b, mid) ==
    /\ BackwardDone
    /\ n \in Reach(vals, root)
    /\ Users(a) \cup Users(b) \subseteq {n, mid}
    /\ Users(mid) \subseteq {n}

\* C23: a - b and a / b are built from +, * and **: the result of a - b has
\* data a.data - b.data and backward() adds g to a.grad and -g to b.grad (g
\* the grad of the result), the result of a / b has data a.data / b.data and
\* backward() adds g / b.data to a.grad and -g * a.data / b.data**2 to
\* b.grad, for b a Value (a itself included) and for b a plain number;
\* every + and * of a program of differences and quotients is one of these.
SubDivCompose ==
    \A n \in Ids(vals) :
        LET a == vals[n].self
            b == vals[n - 1].self
            g == vals[n].grad
        IN  /\ SubValue(n) =>
                /\ vals[n - 1].self # 0
                /\ vals[n - 2].data = R(-1)
                /\ vals[n].data = RSub(vals[a].data, vals[b].data)
                /\ Through(n, a, b, n - 1) =>
                     IF a = b
                     THEN vals[a].grad = Zero
                     ELSE vals[a].grad = g /\ vals[b].grad = RNeg(g)
            /\ DivValue(n) =>
                /\ vals[n - 1].other = -1
                /\ vals[n].data = RDiv(vals[a].data, vals[b].data)
                /\ Through(n, a, b, n - 1) =>
                     LET da == RDiv(g, vals[b].data)
                         db == RNeg(RDiv(RMul(g, vals[a].data),
                                         RMul(vals[b].data, vals[b].data)))
                     IN  IF a = b
                         THEN vals[a].grad = RAdd(da, db)
                         ELSE vals[a].grad = da /\ vals[b].grad = db
            /\ \A r \in Lits :
                 (WithNumber(n, "+") /\ vals[n - 1].data = RNeg(r)) =>
                     /\ vals[n].data = RSub(vals[a].data, r)
                     /\ Through(n, a, a, n) => vals[a].grad = g
            /\ \A r \in Lits :
                 (WithNumber(n, "*") /\ vals[n - 1].data = RInv(r)) =>
                     /\ vals[n].data = RDiv(vals[a].data, r)
                     /\ Through(n, a, a, n) => vals[a].grad = RDiv(g, r)
            /\ vals[n].op = "+" =>
                 \/ SubValue(n)
                 \/ \E r \in Lits : WithNumber(n, "+") /\ vals[n - 1].data = RNeg(r)
            /\ vals[n].op = "*" =>
                 \/ DivValue(n)
                 \/ \E r \in Lits : WithNumber(n, "*") /\ vals[n - 1].data = RInv(r)
                 \/ n < Len(vals) /\ SubValue(n + 1)

\* backward() has run through a - b and through a / b on distinct Values a
\* and b, each with a gradient that is not 0
SubDivComposeWitness ==
    /\ BackwardDone
    /\ \E n \in Ids(vals) :
        /\ SubValue(n) \/ DivValue(n)
        /\ vals[n].self # vals[n - 1].self
        /\ Through(n, vals[n].self, vals[n - 1].self, n - 1)
        /\ vals[vals[n - 1].self].grad # Zero
        /\ vals[vals[n].self].grad # Zero
    /\ \E n \in Ids(vals) : SubValue(n) /\ n = 5

\* max(x, 0), by cases
Clamp(x) == IF RLt(Zero, x) THEN x ELSE Zero

\* the relu nodes
ReluNodes == {n \in Ids(vals) : vals[n].op = "relu"}

\* C24: relu(v) is a new Value with data max(v.data, 0) and the input v;
\* its backward rule adds out.grad to v.grad when v.data > 0 and adds 0 when
\* v.data <= 0, 0 included; relu of a list returns a list of the same
\* length whose item i is relu of item i of the input.
ReluContract ==
    /\ \A n \in ReluNodes :
        LET v == vals[n].self
        IN  /\ v < n
            /\ vals[n].prev = {v}
            /\ vals[n].data = Clamp(vals[v].data)
            /\ (BackwardDone /\ n \in Reach(vals, root) /\ Users(v) = {n}) =>
                 vals[v].grad = IF RLt(Zero, vals[v].data) THEN vals[n].grad ELSE Zero
    /\ ret[1] = "list" =>
        /\ Len(ret[2]) = Len(args.x)
        /\ \A i \in 1..Len(ret[2]) :
            /\ ret[2][i] \in ReluNodes
            /\ vals[ret[2][i]].self = args.x[i]
            /\ \A j \in 1..Len(ret[2]) : i # j => ret[2][i] # ret[2][j]

\* backward() has run through relu of a Value whose data is 0, from a root
\* above it, and relu has returned a list of two
ReluContractWitness ==
    /\ BackwardDone
    /\ \E n \in ReluNodes :
        /\ n \in Reach(vals, root)
        /\ vals[vals[n].self].data = Zero
        /\ vals[n].grad # Zero
        /\ Users(vals[n].self) = {n}
    /\ ret[1] = "list"
    /\ Len(ret[2]) = 2

(* ------------------------------ Adam.step ------------------------------ *)
\* the largest s with s * s <= k, searched upwards from s
RECURSIVE isqrt(_, _)
isqrt(k, s) == IF (s + 1) * (s + 1) > k THEN s ELSE isqrt(k, s + 1)

\* math.sqrt(x) for x >= 0, cut off after the first decimal
math_sqrt(x) == Rat(isqrt((100 * x[1]) \div x[2], 0), 10)

\* the float quotient x / y for y > 0, kept to three binary places
float_div(x, y) == Rat((8 * x[1] * y[2]) \div (x[2] * y[1]), 8)

\* the loop of Adam.step from the i-th parameter on, a the Adam state with
\* _t already incremented
RECURSIVE Adam_loop(_, _, _, _)
Adam_loop(h, o, a, i) ==
    IF i > Len(o.params)
    THEN <<h, a>>
    ELSE LET p == o.params[i]
             g == h[p].grad
             m == RAdd(RMul(a.beta1, a.m[p]),
                       RMul(RSub(One, a.beta1), g))
             v == RAdd(RMul(a.beta2, a.v[p]),
                       RMul(RSub(One, a.beta2), RPowNat(g, 2)))
             m_hat == RDiv(m, RSub(One, RPowNat(a.beta1, a.t)))
             v_hat == RDiv(v, RSub(One, RPowNat(a.beta2, a.t)))
             d == RSub(h[p].data,
                       float_div(RMul(o.lr, m_hat),
                                 RAdd(math_sqrt(v_hat), a.epsilon)))
         IN  Adam_loop([h EXCEPT ![p].data = d], o,
                       [a EXCEPT !.m[p] = m, !.v[p] = v], i + 1)

\* an Adam.step that counts one time step per parameter
Adam_step_per_parameter(h, o, a) ==
    Adam_loop(h, o, [a EXCEPT !.t = @ + Len(o.params)], 1)

\* Adam.step: self._t += 1, then the loop over the parameters; the heap and
\* the Adam state afterwards
Adam_step(h, o, a) == Adam_loop(h, o, [a EXCEPT !.t = @ + 1], 1)

\* optimizer.step() of an Adam
AdamStep ==
    /\ phase = "bwd"
    /\ pc = "idle"
    /\ Len(opt) = 2
    /\ LET r == Adam_step(vals, opt[1], opt[2])
       IN  /\ vals' = r[1]
           /\ opt' = <<opt[1], r[2]>>
    /\ snap' = vals
    /\ iter' = iter + 1
    /\ phase' = "stepped"
    /\ UNCHANGED <<extvars, bwvars, nops, ret, mods, args>>

\* the training loop with an Adam or an SGD optimizer
NextAdam ==
    \/ NeuronInit
    \/ AdamInit
    \/ OptimizerInit
    \/ ZeroGrad
    \/ Forward
    \/ Square
    \/ OutBackward
    \/ BackwardStep
    \/ AdamStep
    \/ SGDStep

SpecAdam == Init /\ [][NextAdam]_vars

\* C25: Adam's step counter is 0 after construction and always equals the
\* number of step() calls made so far, whatever the number of parameters the
\* optimizer owns, and a zero_grad() call leaves the counter and the moment
\* accumulators _m and _v as they were.
IsAdam == Len(opt) = 2
AdamCounter ==
    /\ [](IsAdam => opt[2].t = iter)
    /\ [][IsAdam /\ opt' # opt => /\ phase' = "stepped"
                                  /\ opt'[2].t = opt[2].t + 1]_vars
    /\ [][IsAdam /\ phase' \in {"zeroed", "rezeroed"} => opt' = opt]_vars
AdamCounterWitness ==
    /\ IsAdam
    /\ Len(opt[1].params) > 1
    /\ opt[2].t = 1
    /\ phase = "zeroed"
    /\ \E p \in DOMAIN opt[2].m : opt[2].m[p] # Zero /\ opt[2].v[p] # Zero

(* -------------------- backward() on two threads ------------------------ *)
\* the number of grad += statements in node n's _backward
_backward_stmts(h, n) ==
    CASE h[n].op \in {"+", "*"} -> 2
      [] h[n].op = "" -> 0
      [] OTHER -> 1

\* the Value whose grad the k-th statement of node n's _backward adds to
_backward_target(h, n, k) == IF k = 1 THEN h[n].self ELSE h[n].other

\* the right-hand side of the k-th statement of node n's _backward
_backward_amount(h, n, k) ==
    LET s == h[n].self
        o == h[n].other
    IN  CASE h[n].op = "+" -> h[n].grad
          [] h[n].op = "*" ->
               RMul(IF k = 1 THEN h[o].data ELSE h[s].data, h[n].grad)
          [] h[n].op = "**" ->
               RMul(RMul(R(o), RPow(h[s].data, o - 1)), h[n].grad)
          [] h[n].op = "log" -> RDiv(h[n].grad, h[s].data)
          [] h[n].op = "tanh" ->
               RMul(RSub(One, RMul(h[n].t, h[n].t)), h[n].grad)
          [] h[n].op = "relu" -> RMul(Gt0(h[s].data), h[n].grad)
          [] OTHER -> Zero

\* the next grad += at or after statement k of topo[i] in the loop over
\* reversed(topo); <<0, 1>> when the loop is over
RECURSIVE NextStmt(_, _, _, _)
NextStmt(h, t, i, k) ==
    IF i = 0
    THEN <<0, 1>>
    ELSE IF k <= _backward_stmts(h, t[i])
         THEN <<i, k>>
         ELSE NextStmt(h, t, i - 1, 1)

\* a += that writes back what it has read and drops its right-hand side
_iadd_dropped(reg, g) == reg

\* x.grad += g, given the x.grad it has read: the value it writes
_iadd(reg, g) == RAdd(reg, g)

Thread(r) == [root |-> r, topo |-> <<>>, idx |-> 0, stmt |-> 1,
              pc |-> "call", reg |-> Zero]

\* the program starts two threads, one backward() each, on the Value it
\* built last and on another root whose graph has a leaf in common with it
\* and no other Value; the two graphs are all it has built, every grad is 0
Start ==
    /\ pc = "idle"
    /\ thr = <<>>
    /\ \A i \in Ids(vals) : vals[i].grad = Zero
    /\ \E r1, r2 \in Ids(vals) :
        /\ r1 < r2
        /\ r2 = Len(vals)
        /\ Reach(vals, r1) \cup Reach(vals, r2) = Ids(vals)
        /\ vals[r1].op # ""
        /\ vals[r2].op # ""
        /\ Reach(vals, r1) \cap Reach(vals, r2) # {}
        /\ \A n \in Reach(vals, r1) \cap Reach(vals, r2) : vals[n].op = ""
        /\ thr' = <<Thread(r1), Thread(r2)>>
    /\ pc' = "join"
    /\ UNCHANGED <<hist, tok, tkcall, enc, enccall, vals, root, topo, idx, nops, ret, nnvars>>

\* thread i enters backward(): topo = _topological_sort(self), then
\* self.grad = 1.0
ThreadCall(i) ==
    /\ thr # <<>>
    /\ thr[i].pc = "call"
    /\ \E t \in _topological_sort(vals, thr[i].root) :
        LET pos == NextStmt(vals, t, Len(t), 1)
        IN  thr' = [thr EXCEPT ![i] = [@ EXCEPT !.topo = t, !.idx = pos[1],
                                                !.stmt = pos[2],
                                                !.pc = IF pos[1] = 0 THEN "done" ELSE "read"]]
    /\ vals' = [vals EXCEPT ![thr[i].root].grad = One]
    /\ UNCHANGED <<hist, tok, tkcall, enc, enccall, bwvars, nops, ret, nnvars>>

\* thread i reads x.grad for the += it is at
ThreadRead(i) ==
    /\ thr # <<>>
    /\ thr[i].pc = "read"
    /\ LET x == _backward_target(vals, thr[i].topo[thr[i].idx], thr[i].stmt)
       IN  thr' = [thr EXCEPT ![i] = [@ EXCEPT !.reg = vals[x].grad, !.pc = "write"]]
    /\ UNCHANGED <<hist, tok, tkcall, enc, enccall, vals, bwvars, nops, ret, nnvars>>

\* thread i evaluates the right-hand side, adds it to what it has read and
\* writes x.grad; then it moves to the next += of the loop
ThreadWrite(i) ==
    /\ thr # <<>>
    /\ thr[i].pc = "write"
    /\ LET n == thr[i].topo[thr[i].idx]
           x == _backward_target(vals, n, thr[i].stmt)
           pos == NextStmt(vals, thr[i].topo, thr[i].idx, thr[i].stmt + 1)
       IN  /\ vals' = [vals EXCEPT ![x].grad =
                          _iadd(thr[i].reg, _backward_amount(vals, n, thr[i].stmt))]
           /\ thr' = [thr EXCEPT ![i] = [@ EXCEPT !.idx = pos[1], !.stmt = pos[2],
                                                   !.pc = IF pos[1] = 0 THEN "done" ELSE "read"]]
    /\ UNCHANGED <<hist, tok, tkcall, enc, enccall, bwvars, nops, ret, nnvars>>

ThreadStep == \E i \in 1..2 : ThreadCall(i) \/ ThreadRead(i) \/ ThreadWrite(i)

\* both backward() calls have returned: the program joins the threads
Join ==
    /\ pc = "join"
    /\ \A i \in 1..2 : thr[i].pc = "done"
    /\ pc' = "joined"
    /\ UNCHANGED <<extvars, vals, root, topo, idx, nops, ret, nnvars>>

\* a + b and a * b on two Values the caller holds
AddValues ==
    \E s \in Ids(vals) : \E o \in s..Len(vals) :
        Room(1) /\ Built(__add__(vals, s, <<"v", o>>))

MulValues ==
    \E s \in Ids(vals) : \E o \in s..Len(vals) :
        Room(1) /\ Built(__mul__(vals, s, <<"v", o>>))

NextConc ==
    \/ NewValue
    \/ AddValues
    \/ MulValues
    \/ Start
    \/ ThreadStep
    \/ Join

SpecConc == Init /\ [][NextConc]_vars

\* both threads have been joined
Joined == pc = "joined"

\* the += statements that add to n.grad in the two backward() calls: the
\* consumer m and the statement k of its _backward
StmtsOn(n) ==
    {e \in Ids(vals) \X (1..2) :
        /\ e[1] \in Reach(vals, thr[1].root) \cup Reach(vals, thr[2].root)
        /\ e[2] <= _backward_stmts(vals, e[1])
        /\ _backward_target(vals, e[1], e[2]) = n}

\* what statement e adds when its thread runs alone: the local derivative
\* times the derivative of the thread's root by the consumer
AmountOf(e) ==
    LET m == e[1]
        r == IF m \in Reach(vals, thr[1].root) THEN thr[1].root ELSE thr[2].root
        d == CASE vals[m].op = "+" -> One
               [] vals[m].op = "*" ->
                    IF e[2] = 1 THEN vals[vals[m].other].data
                                ELSE vals[vals[m].self].data
               [] OTHER -> Zero
    IN  RMul(d, Deriv(vals, r, m))

RECURSIVE AmountSum(_)
AmountSum(S) ==
    IF S = {}
    THEN Zero
    ELSE LET e == CHOOSE x \in S : TRUE
         IN  RAdd(AmountOf(e), AmountSum(S \ {e}))

SharedLeaves == Reach(vals, thr[1].root) \cap Reach(vals, thr[2].root)

\* the sum of the two threads' contributions to n.grad
BothContributions(n) ==
    RAdd(IF n \in Reach(vals, thr[1].root) THEN Deriv(vals, thr[1].root, n) ELSE Zero,
         IF n \in Reach(vals, thr[2].root) THEN Deriv(vals, thr[2].root, n) ELSE Zero)

\* C26: two backward() calls that run concurrently on graphs that share a
\* leaf, each grad += being a read followed by a write, can lose updates of
\* the shared leaf: after both have returned, the grad of a shared leaf is
\* the sum of some of the += amounts added to it, at least one, and not
\* always of all of them; every Value that only one graph holds has its exact
\* derivative, and the sum of all amounts is the sum of the two threads'
\* contributions.
LostUpdatePossible ==
    Joined =>
        \A n \in Ids(vals) :
            /\ AmountSum(StmtsOn(n)) = BothContributions(n) \/ n \in {thr[1].root, thr[2].root}
            /\ IF n \in SharedLeaves
               THEN \E S \in SUBSET StmtsOn(n) : S # {} /\ vals[n].grad = AmountSum(S)
               ELSE vals[n].grad = BothContributions(n)
\* both threads have returned and a shared leaf holds less than the sum of
\* the two contributions
LostUpdatePossibleWitness ==
    /\ Joined
    /\ \E p \in SharedLeaves : vals[p].grad # BothContributions(p)

(* ------------- backward() called again without zero_grad() ------------- *)
\* the calls a program makes after it has built its graphs
MaxCalls == 3

\* a backward() that clears every other grad when it sets self.grad = 1.0
seed_reset(h, r) ==
    [n \in DOMAIN h |-> [h[n] EXCEPT !.grad = IF n = r THEN One ELSE Zero]]

\* a backward() that first clears the grad of every Value its root reaches
seed_zero_reached(h, r) ==
    [n \in DOMAIN h |->
        [h[n] EXCEPT !.grad = IF n = r THEN One
                              ELSE IF n \in ReachFrom(h, {r}, {r}) THEN Zero ELSE @]]

\* self.grad = 1.0
seed(h, r) == [h EXCEPT ![r].grad = One]

\* the program that calls backward() several times builds its graphs first,
\* one Value less than the heap can hold, out of leaves, + and *
BuildLeaf == Room(2) /\ NewValue

BuildAdd ==
    \E s \in Ids(vals) : \E o \in s..Len(vals) :
        Room(2) /\ Built(__add__(vals, s, <<"v", o>>))

BuildMul ==
    \E s \in Ids(vals) : \E o \in s..Len(vals) :
        Room(2) /\ Built(__mul__(vals, s, <<"v", o>>))

\* backward() from its call to its return on any Value, whatever the grads
\* are when it is called; pc = "calls" once the program has begun to call
BackwardAgain ==
    /\ pc \in {"idle", "calls"}
    /\ Len(hist) < MaxCalls
    /\ \E r \in Ids(vals) : \E t \in _topological_sort(vals, r) :
        LET end == _loop(seed(vals, r), t, Len(t))
        IN  /\ vals' = end[1]
            /\ root' = r
            /\ pc' = IF end[2] = 0 THEN "calls" ELSE "raised"
            /\ ret' = IF end[2] = 0 THEN ret ELSE <<"raise", "ZeroDivisionError">>
            /\ hist' = Append(hist, <<"backward", r>>)
    /\ topo' = <<>>
    /\ idx' = 0
    /\ UNCHANGED <<tok, tkcall, enc, enccall, thr, nops, nnvars>>

NextAcc ==
    \/ BuildLeaf
    \/ BuildAdd
    \/ BuildMul
    \/ BackwardAgain

SpecAcc == Init /\ [][NextAcc]_vars

\* the call made last, and whether this step is a backward() call
LastCall(h) == h[Len(h)]
BackwardCalled == Len(hist') > Len(hist) /\ LastCall(hist')[1] = "backward"

\* C27: a backward() call changes grad fields only: no Value is added or
\* removed, the data, the inputs, the operation and what the _backward
\* closure captured are the same afterwards for every Value, and the grad of
\* every Value that is not reachable from the root is the same.
BackwardChangesGradsOnly ==
    [][BackwardCalled =>
        /\ Len(vals') = Len(vals)
        /\ \A n \in Ids(vals) :
            /\ vals'[n] = [vals[n] EXCEPT !.grad = vals'[n].grad]
            /\ n \notin Reach(vals, LastCall(hist')[2]) =>
                   vals'[n].grad = vals[n].grad]_vars
\* backward() has run on a root after an earlier backward() left a grad
\* other than 0 on a Value that the root does not reach
BackwardChangesGradsOnlyWitness ==
    /\ Len(hist) >= 2
    /\ LastCall(hist)[1] = "backward"
    /\ \E n \in Ids(vals) \ Reach(vals, LastCall(hist)[2]) : vals[n].grad # Zero
    /\ \E n \in Reach(vals, LastCall(hist)[2]) : vals[n].op = "" /\ vals[n].grad # Zero

\* the roots R1 and R2 of the two backward() calls made last
R1 == hist[Len(hist) - 1][2]
R2 == hist[Len(hist)][2]
SharedByBoth == Reach(vals, R1) \cap Reach(vals, R2)

\* the two calls made last are backward() on non-leaf roots whose graphs
\* share leaves only, and every non-leaf Value had grad 0 before the first
\* of the two: no earlier call was a backward() on a non-leaf Value
TwoPasses ==
    /\ Len(hist) >= 2
    /\ \A k \in {Len(hist) - 1, Len(hist)} :
        hist[k][1] = "backward" /\ ~IsLeaf(vals, hist[k][2])
    /\ \A n \in SharedByBoth : IsLeaf(vals, n)
    /\ \A k \in 1..(Len(hist) - 2) :
        hist[k][1] = "backward" => IsLeaf(vals, hist[k][2])
    /\ pc = "calls"

\* every Value the two graphs share holds dR1/dp + dR2/dp
SumOfBoth ==
    \A p \in SharedByBoth :
        vals[p].grad = RAdd(Deriv(vals, R1, p), Deriv(vals, R2, p))

\* C28 as stated: after backward() on R1 and then on R2, non-leaf roots
\* whose graphs share leaves only and whose non-leaf Values had grad 0
\* beforehand, every shared leaf holds dR1/dp + dR2/dp.
AccumulationExact == TwoPasses => SumOfBoth

\* the shared leaves had grad 0 before the first of the two calls: no
\* earlier call was a backward() on one of them
SharedLeavesWereZero ==
    \A k \in 1..(Len(hist) - 2) :
        hist[k][1] = "backward" => hist[k][2] \notin SharedByBoth

\* C28, amended: if in addition every shared leaf had grad 0 before the
\* first call, every shared leaf holds dR1/dp + dR2/dp after the second.
AccumulationExactFromZero == TwoPasses /\ SharedLeavesWereZero => SumOfBoth
\* two passes over graphs that share a leaf whose grad was 0; the leaf
\* holds the sum, which differs from either pass's part
AccumulationExactFromZeroWitness ==
    /\ TwoPasses
    /\ SharedLeavesWereZero
    /\ \E p \in SharedByBoth :
        /\ Deriv(vals, R1, p) # Zero
        /\ Deriv(vals, R2, p) # Zero
        /\ vals[p].grad = RAdd(Deriv(vals, R1, p), Deriv(vals, R2, p))

(* ---------------- step() between two backward() calls ------------------ *)
\* SGD([a], lr).step() for a leaf a of the graphs the program has built,
\* once in a program
LeafStep ==
    /\ pc \in {"idle", "calls"}
    /\ Len(hist) < MaxCalls
    /\ \A k \in DOMAIN hist : hist[k][1] # "step"
    /\ \E a \in Ids(vals), lr \in LRs :
        /\ IsLeaf(vals, a)
        /\ ~Optimizer__init__raises(lr)
        /\ opt' = <<Optimizer__init__(<<a>>, lr)>>
        /\ vals' = step(vals, <<a>>, lr, 1)
        /\ hist' = Append(hist, <<"step", a>>)
    /\ iter' = iter + 1
    /\ pc' = "calls"
    /\ UNCHANGED <<tok, tkcall, enc, enccall, thr, root, topo, idx, nops, ret,
                   mods, phase, args, snap>>

\* a * b on two leaves
BuildProduct ==
    \E s \in Ids(vals) : \E o \in s..Len(vals) :
        /\ IsLeaf(vals, s)
        /\ IsLeaf(vals, o)
        /\ Room(2)
        /\ Built(__mul__(vals, s, <<"v", o>>))

NextStale ==
    \/ BuildLeaf
    \/ BuildAdd
    \/ BuildProduct
    \/ BackwardAgain
    \/ LeafStep

SpecStale == Init /\ [][NextStale]_vars

\* this step is the step() of an optimizer on the leaf a
StepCalled(a) == Len(hist') > Len(hist) /\ LastCall(hist') = <<"step", a>>

\* c = a * b for two distinct leaves a and b
ProductOfLeaves(h, c) ==
    /\ h[c].op = "*"
    /\ h[c].self # h[c].other
    /\ IsLeaf(h, h[c].self)
    /\ IsLeaf(h, h[c].other)

OptimizerCalled ==
    /\ opt # <<>>
    /\ vals' # vals
    /\ Len(vals') = Len(vals)
    /\ UNCHANGED <<pc, root, topo, idx>>
OwnParams == {opt[1].params[i] : i \in 1..Len(opt[1].params)}

\* C30: a call on the optimizer has a narrow effect: zero_grad() changes no
\* data, step() of an SGD or of an Adam changes no grad, and neither changes
\* the data or the grad of a Value that is not in the optimizer's parameter
\* list, the intermediate Values of the graph included.
NarrowEffect ==
    [][OptimizerCalled =>
        \A n \in Ids(vals) :
            /\ n \notin OwnParams => vals'[n] = vals[n]
            /\ iter' = iter => vals'[n] = [vals[n] EXCEPT !.grad = vals'[n].grad]
            /\ iter' # iter => vals'[n] = [vals[n] EXCEPT !.data = vals'[n].data]]_vars
\* a zero_grad() after backward() has cleared the parameters' grads and left
\* a non-zero grad on an intermediate Value, after an Adam step() changed data
NarrowEffectWitness ==
    /\ IsAdam
    /\ iter = 1
    /\ phase = "rezeroed"
    /\ \A p \in OwnParams : vals[p].grad = Zero
    /\ \E n \in Ids(vals) \ OwnParams : vals[n].op # "" /\ vals[n].grad # Zero
    /\ \E p \in OwnParams : opt[2].m[p] # Zero

====
